---- MODULE Spec2Model ----
(***************************************************************************)
(* Channel reliability layer of icarus: the deduplication cache and the    *)
(* inbound debouncer of src/utils/debouncer.ts and the credential save     *)
(* queue of src/utils/creds-queue.ts, as state machines.                   *)
(***************************************************************************)
EXTENDS Integers, Sequences, FiniteSets, TLC

(***************************************************************************)
(* Bounds of the model.                                                    *)
(***************************************************************************)
\* Timestamps handed to DedupeCache.check range over 0..MaxNow.
MaxNow == 3
\* options.maxSize ranges over 0..MaxMaxSize.
MaxMaxSize == 2

\* Keys handed to DedupeCache.check ("" stands for null, undefined and "").
DedupeKeys == {"a", "b", "c"}
NullKey == ""
\* options.ttlMs
TtlOptions == {0, 1, 2}
\* "no timestamp": cache.get(key) === undefined, or no earlier call.
None == -1

\* At most MaxItems enqueue calls.
MaxItems == 3
\* Keys buildKey returns (NullKey for null, undefined and "").
DebounceKeys == {"k1", "k2"}
\* options.debounceMs in half milliseconds: -1.5 ms, 0.5 ms, 2 ms
DebounceOptions == {-3, 1, 4}

\* At most MaxSaves operations are enqueued on the credential save queue.
MaxSaves == 3

\* At most MaxSends messages or files are sent.
MaxSends == 2

VARIABLES
    \* ---- createDedupeCache (debouncer.ts:292-353)
    cache,      \* the Map<string, number>, as its entries in insertion order
    ttlMs,      \* options.ttlMs
    maxSize,    \* options.maxSize
    \* history of the calls, for the properties
    lastNow,    \* timestamp of the latest check call, None before the first
    monotone,   \* TRUE while the timestamps of the calls never decreased
    lastCheck,  \* key -> timestamp of its most recent check, None if never
    capEvicted, \* key -> TRUE if the size cap evicted it since its last check
    ret,        \* the latest check call and what it returned
    \* ---- createInboundDebouncer (debouncer.ts:109-219)
    optDebounce, \* options.debounceMs, in half milliseconds
    buffers,    \* the Map<string, DebounceBuffer>, as its entries in insertion
                \* order: [key, items, timer], timer the time left on the
                \* buffer's armed setTimeout
    nEnq,       \* the number of enqueue calls so far: item i is the i-th
    running,    \* the onFlush invocations that have not settled yet
    forced,     \* the flushKey and flushAll promises that have not resolved
    \* history, for the properties
    lastThrow,  \* what became of the handler failure of the latest step:
                \* whether onError got it, and the promise of the enqueue that
                \* awaited the handler directly
    sinceLast,  \* key -> time since its latest debounced enqueue (capped)
    chain,      \* key -> its latest debounced item, 0 once a flushKey,
                \* flushAll or bypassing item for the key came after it
    handed,     \* item -> the number of times it was handed to onFlush
    maxHanded,  \* key -> the latest item of the key handed to onFlush
    \* ---- createCredsSaveQueue, maybeRestoreCredsFromBackup (creds-queue.ts)
    mainFile,   \* the content of authDir/creds.json
    backupFile, \* the content of authDir/creds.json.backup
    proc,       \* "down" before the process starts and after a crash, else "up"
    ops,        \* the operations enqueued in this process, in enqueue order:
                \* [ver, state, chain], chain the state of the promise that
                \* enqueue stored in queue, with what the logger was told
    flushes,    \* the promise the caller's latest flush() returned, if any:
                \* {[upto, status]}, upto the operations enqueued before it
    \* history, for the properties
    nSaves,     \* the number of operations enqueued so far, in all processes
    lastValid,  \* the latest valid content the main file held
    savedValid, \* TRUE once a save completed leaving a valid main file
    tornAtCrash, \* TRUE if the latest crash interrupted a save and left the
                \* main file unusable
    restoreRet, \* the latest step's maybeRestoreCredsFromBackup call: what
                \* it found and what it returned
    \* ---- resolveSendJid, sendWhatsAppMessage, sendWhatsAppFile (outbound.ts)
    selfChatLid, \* lidMapper.selfChatLid
    myNumber,   \* lidMapper.myNumber
    lidToJid,   \* lidMapper.lidToJid: linked identifier -> entry
    lidMapping, \* sock.signalRepository.lidMapping: linked identifier -> entry,
                \* or Absent when the socket has no such mapping
    hasStore,   \* whether lidMapper.messageStore is there
    sentMessageIds, \* the set of message ids passed to the send functions
    messageStore, \* the ids lidMapper.messageStore holds a message for
    outTimers,  \* the pending cleanup timers: [kind, id, due]
    outNow,     \* the time, in ms
    nSends,     \* the number of sends made so far
    resolveRet, \* the latest step's resolveSendJid call and its outcome
    sendRet,    \* the latest step's send: its outcome and its socket calls
    \* ---- applyGroupGating (group-gating.ts), detectMention (mentions.ts)
    groupsConfig, \* params.groupsConfig: [present, groups], groups a function
                \* from group identifiers and "*" to the requireMention flag
    mentionPatterns, \* config.mentionPatterns
    selfJid,    \* the bot's real address, or Undefined
    selfLid,    \* the bot's linked identifier, or Undefined
    selfE164,   \* the bot's phone number, or Undefined
    mentionRet, \* the latest step's detectMention call and its result
    gateRet,    \* the latest step's applyGroupGating call and its result
    \* ---- createGroupMetaCache (outbound.ts)
    metaCache,  \* the Map: group identifier -> the expires of its entry, or None
    metaPending, \* group identifier -> the number of its get calls that await their fetch
    metaDone,   \* group identifier -> when the latest get of it completed, or None
    metaNow,    \* Date.now(), in ms
    metaRet,    \* the latest get call: [called, jid, calledAt, prev, fetched],
                \* prev the completion of the get of jid before it
    \* ---- computeBackoff, createReconnectManager (phone.test.ts:97-203)
    policy,     \* the policy: initialMs, maxMs, factor, jitter (and maxAttempts)
    attempts,   \* the manager's counter
    nInc,       \* the increment and nextDelay calls since creation or the last reset
    mgrRet,     \* the manager's latest call: [op, before, value], and delays,
                \* the calls of nextDelay since creation or the last reset
    backoffRet, \* the latest computeBackoff call: its attempt, draw and delay
    backoffPrev, \* the computeBackoff call before that one
    \* ---- sleepWithAbort (phone.test.ts:122-140)
    sleepMs,    \* the ms of the call
    signal,     \* the AbortSignal: [given, aborted]
    promise,    \* "none" before the call, then "pending", "resolved" or "rejected"
    timeout,    \* the timer: [state, due], state "none", "armed", "fired", "cleared"
    listener,   \* whether onAbort is registered on the signal
    sleepNow,   \* the time, in ms
    settles,    \* the calls of resolve and reject so far: [outcome, at]
    \* ---- the reconnect loop of createReconnectManager's example
    \*      (phone.test.ts:150-161)
    loopPc,     \* where the loop is: "check", "connecting", "sleeping", or ended
                \* as "connected", "exhausted" or "aborted"
    failsInRow, \* the failed connect attempts since the start or the last success
    nLoops      \* the number of times the loop was entered

dedupeVars == <<cache, ttlMs, maxSize, lastNow, monotone, lastCheck, capEvicted, ret>>
debounceVars == <<optDebounce, buffers, nEnq, running, forced, lastThrow,
                  sinceLast, chain, handed, maxHanded>>

credsVars == <<mainFile, backupFile, proc, ops, flushes, nSaves, lastValid, savedValid,
               tornAtCrash, restoreRet>>

outboundVars == <<selfChatLid, myNumber, lidToJid, lidMapping, hasStore, sentMessageIds,
                  messageStore, outTimers, outNow, nSends, resolveRet, sendRet>>

\* the variables of the components that follow the credential save queue
gatingVars == <<groupsConfig, mentionPatterns, selfJid, selfLid, selfE164, mentionRet, gateRet>>

backoffVars == <<policy, attempts, nInc, mgrRet, backoffRet, backoffPrev>>
sleepVars == <<sleepMs, signal, promise, timeout, listener, sleepNow, settles>>
loopVars == <<loopPc, failsInRow, nLoops>>
metaVars == <<metaCache, metaPending, metaDone, metaNow, metaRet>>
utilVars == <<backoffVars, sleepVars, loopVars>>

restVars == <<outboundVars, gatingVars, metaVars, utilVars>>

vars == <<cache, ttlMs, maxSize, lastNow, monotone, lastCheck, capEvicted, ret,
          optDebounce, buffers, nEnq, running, forced, lastThrow,
          sinceLast, chain, handed, maxHanded,
          mainFile, backupFile, proc, ops, flushes, nSaves, lastValid, savedValid,
          tornAtCrash, restoreRet,
          selfChatLid, myNumber, lidToJid, lidMapping, hasStore, sentMessageIds,
          messageStore, outTimers, outNow, nSends, resolveRet, sendRet,
          groupsConfig, mentionPatterns, selfJid, selfLid, selfE164, mentionRet, gateRet,
          metaCache, metaPending, metaDone, metaNow, metaRet,
          policy, attempts, nInc, mgrRet, backoffRet, backoffPrev,
          sleepMs, signal, promise, timeout, listener, sleepNow, settles,
          loopPc, failsInRow, nLoops>>

(***************************************************************************)
(* Deduplication cache                                                     *)
(***************************************************************************)
Range(s) == {s[i] : i \in DOMAIN s}

\* cache.size
CacheSize(c) == Len(c)

\* cache.get(key): the timestamp, or None for undefined
CacheGet(c, key) ==
    IF \E i \in DOMAIN c : c[i].key = key
    THEN (CHOOSE e \in Range(c) : e.key = key).ts
    ELSE None

\* (mutant) a set that leaves the timestamp of an existing key as it is
CacheSetKeepsTimestamp(c, key, now) ==
    IF \E i \in DOMAIN c : c[i].key = key
    THEN c
    ELSE Append(c, [key |-> key, ts |-> now])

\* cache.set(key, now): an existing key keeps its place in the Map's
\* insertion order, a new key goes last
CacheSet(c, key, now) ==
    IF \E i \in DOMAIN c : c[i].key = key
    THEN [i \in DOMAIN c |-> IF c[i].key = key THEN [key |-> key, ts |-> now] ELSE c[i]]
    ELSE Append(c, [key |-> key, ts |-> now])

\* cache.delete(key) for every key of a set
CacheDeleteAll(c, keys) == SelectSeq(c, LAMBDA e : e.key \notin keys)

\* prune, first loop: the keys whose entry has now - timestamp > ttlMs
ExpiredKeys(c, now, ttl) == {c[i].key : i \in {j \in DOMAIN c : now - c[j].ts > ttl}}

\* (mutant) a sort that puts the later of two entries of one timestamp first
SortedPlaceLaterFirst(c, i) ==
    Cardinality({j \in DOMAIN c : c[j].ts < c[i].ts \/ (c[j].ts = c[i].ts /\ j > i)})

\* Array.from(cache.entries()).sort((a, b) => a[1] - b[1]): a stable sort by
\* timestamp; the place of entry i in the sorted array, from 0
SortedPlace(c, i) ==
    Cardinality({j \in DOMAIN c : c[j].ts < c[i].ts \/ (c[j].ts = c[i].ts /\ j < i)})

\* (mutant) the slice one entry short: sorted.slice(0, cache.size - maxSize - 1)
OverCapKeysOneShort(c, cap) ==
    IF CacheSize(c) > cap
    THEN {c[i].key : i \in {j \in DOMAIN c : SortedPlace(c, j) < CacheSize(c) - cap - 1}}
    ELSE {}

\* (mutant) the sort the other way round: the newest entries go
OverCapKeysNewestFirst(c, cap) ==
    IF CacheSize(c) > cap
    THEN {c[i].key : i \in {j \in DOMAIN c : SortedPlace(c, j) >= cap}}
    ELSE {}

\* (mutant) the slice one entry long: sorted.slice(0, cache.size - maxSize + 1)
OverCapKeysOneMore(c, cap) ==
    IF CacheSize(c) > cap
    THEN {c[i].key : i \in {j \in DOMAIN c : SortedPlace(c, j) < CacheSize(c) - cap + 1}}
    ELSE {}

\* prune, second part: sorted.slice(0, cache.size - maxSize), when over the cap
OverCapKeys(c, cap) ==
    IF CacheSize(c) > cap
    THEN {c[i].key : i \in {j \in DOMAIN c : SortedPlace(c, j) < CacheSize(c) - cap}}
    ELSE {}

\* prune(now)
Prune(c, now, ttl, cap) ==
    LET live == CacheDeleteAll(c, ExpiredKeys(c, now, ttl))
    IN  CacheDeleteAll(live, OverCapKeys(live, cap))

\* (mutant) the TTL test of check with <= for <
IsDuplicateInclusive(c, key, now, ttl) ==
    CacheGet(c, key) # None /\ now - CacheGet(c, key) <= ttl

\* the test of check: exists and not expired
IsDuplicate(c, key, now, ttl) ==
    CacheGet(c, key) # None /\ now - CacheGet(c, key) < ttl

\* check(key, now) for a non-empty key: the cache it leaves
CheckCache(c, key, now, ttl, cap) ==
    IF IsDuplicate(c, key, now, ttl)
    THEN CacheSet(c, key, now)
    ELSE Prune(CacheSet(c, key, now), now, ttl, cap)

\* the keys the size cap (not the TTL) removes in check(key, now)
CheckCapEvicts(c, key, now, ttl, cap) ==
    IF IsDuplicate(c, key, now, ttl)
    THEN {}
    ELSE LET set == CacheSet(c, key, now)
         IN  OverCapKeys(CacheDeleteAll(set, ExpiredKeys(set, now, ttl)), cap)

NoCall == [key |-> NullKey, now |-> None, result |-> FALSE, prev |-> None, evicted |-> FALSE]

DedupeInit ==
    /\ cache = <<>>
    /\ ttlMs \in TtlOptions
    /\ maxSize \in 0..MaxMaxSize
    /\ lastNow = None
    /\ monotone = TRUE
    /\ lastCheck = [k \in DedupeKeys |-> None]
    /\ capEvicted = [k \in DedupeKeys |-> FALSE]
    /\ ret = NoCall

\* check(key, now) with a non-empty key
Check(key, now) ==
    LET out == CheckCapEvicts(cache, key, now, ttlMs, maxSize)
    IN  /\ cache' = CheckCache(cache, key, now, ttlMs, maxSize)
        /\ ret' = [key |-> key, now |-> now,
                   result |-> IsDuplicate(cache, key, now, ttlMs),
                   prev |-> lastCheck[key], evicted |-> capEvicted[key]]
        /\ lastCheck' = [lastCheck EXCEPT ![key] = now]
        /\ capEvicted' = [k \in DedupeKeys |->
                            IF k \in out THEN TRUE
                            ELSE IF k = key THEN FALSE ELSE capEvicted[k]]
        /\ monotone' = (monotone /\ now >= lastNow)
        /\ lastNow' = now
        /\ UNCHANGED <<ttlMs, maxSize, debounceVars, credsVars, restVars>>

\* (mutant) a check of no key that prunes all the same
CheckNullPrunes(now) ==
    /\ ret' = [key |-> NullKey, now |-> now, result |-> FALSE,
               prev |-> None, evicted |-> FALSE]
    /\ cache' = Prune(cache, now, ttlMs, maxSize)
    /\ monotone' = (monotone /\ now >= lastNow)
    /\ lastNow' = now
    /\ UNCHANGED <<ttlMs, maxSize, lastCheck, capEvicted, debounceVars, credsVars, restVars>>

\* check(null | undefined | "", now): returns false before touching the cache
CheckNull(now) ==
    /\ ret' = [key |-> NullKey, now |-> now, result |-> FALSE,
               prev |-> None, evicted |-> FALSE]
    /\ monotone' = (monotone /\ now >= lastNow)
    /\ lastNow' = now
    /\ UNCHANGED <<cache, ttlMs, maxSize, lastCheck, capEvicted, debounceVars, credsVars, restVars>>

\* clear(): an empty cache again; the history of the calls starts afresh
Clear ==
    /\ cache # <<>>
    /\ cache' = <<>>
    /\ lastCheck' = [k \in DedupeKeys |-> None]
    /\ capEvicted' = [k \in DedupeKeys |-> FALSE]
    /\ ret' = NoCall
    /\ UNCHANGED <<ttlMs, maxSize, lastNow, monotone, debounceVars, credsVars, restVars>>

DedupeNext ==
    \/ \E key \in DedupeKeys, now \in 0..MaxNow : Check(key, now)
    \/ \E now \in 0..MaxNow : CheckNull(now)
    \/ Clear

\* the distinct keys checked in the window of length ttlMs that ends with a
\* check(key, now), the interval (now - ttlMs, now], when time only goes up
KeysInWindow(key, now) ==
    {k \in DedupeKeys : k # key /\ lastCheck[k] # None /\ now - lastCheck[k] < ttlMs}
        \cup (IF ttlMs > 0 THEN {key} ELSE {})

\* check(key, now) by a caller whose timestamps go strictly up and who
\* checks at most maxSize distinct keys in any window of length ttlMs
CheckUnderLoad(key, now) ==
    /\ now > lastNow
    /\ Cardinality(KeysInWindow(key, now)) <= maxSize
    /\ Check(key, now)

LoadNext == \E key \in DedupeKeys, now \in 0..MaxNow : CheckUnderLoad(key, now)


(***************************************************************************)
(* Inbound debouncer                                                       *)
(***************************************************************************)
\* Math.trunc of a number given in half units
Trunc(h) == IF h >= 0 THEN h \div 2 ELSE -((-h) \div 2)

Max(a, b) == IF a >= b THEN a ELSE b

\* const debounceMs = Math.max(0, Math.trunc(options.debounceMs))
DebounceMs == Max(0, Trunc(optDebounce))

\* the cap of the sinceLast clocks: "longer ago than the debounce window"
LongAgo == DebounceMs + 1

\* buffers.has(key), buffers.get(key)
BufferHas(key) == \E i \in DOMAIN buffers : buffers[i].key = key
BufferGet(key) == CHOOSE b \in Range(buffers) : b.key = key

\* (mutant) flushBuffer without buffers.delete(key)
BufferDeleteKeeps(bs, key) == bs

\* buffers.delete(key)
BufferDelete(bs, key) == SelectSeq(bs, LAMBDA b : b.key # key)

\* the identities of a batch's items, in the batch's order
Ids(items) == [j \in DOMAIN items |-> items[j].id]

\* options.onFlush(buffer.items) as flushBuffer invokes it. An invocation is
\* known by the first item of its batch; resume is the bypassing enqueue
\* that awaits it (0: none).
FlushCall(b, cause, resume) ==
    [id |-> b.items[1].id, key |-> b.key, items |-> Ids(b.items), cause |-> cause,
     resume |-> resume]

\* options.onFlush([item]) as enqueue invokes it for a bypassing item
SingleCall(key, item) ==
    [id |-> item, key |-> key, items |-> <<item>>, cause |-> "single", resume |-> 0]

\* (mutant) flushBuffer that returns without a call of onFlush for a buffer
\* of one item
FlushBufferCallsSkipsOne(b, cause, resume) ==
    IF Len(b.items) <= 1 THEN <<>> ELSE <<FlushCall(b, cause, resume)>>

\* flushBuffer(key, buffer) up to its await: the buffer leaves the Map, its
\* timer is cleared, and onFlush is invoked unless the buffer is empty
FlushBufferCalls(b, cause, resume) ==
    IF Len(b.items) = 0 THEN <<>> ELSE <<FlushCall(b, cause, resume)>>

\* the history after the invocations cs: per item how often it was handed
\* to onFlush, per key the latest item handed
HandedAfter(cs) ==
    [i \in 1..MaxItems |->
        handed[i] + Cardinality({<<c, j>> \in (DOMAIN cs) \X (1..MaxItems) :
                                    j \in DOMAIN cs[c].items /\ cs[c].items[j] = i})]
MaxHandedAfter(cs) ==
    [k \in DebounceKeys |->
        LET ids == {maxHanded[k]} \cup
                   UNION {Range(cs[c].items) : c \in {d \in DOMAIN cs : cs[d].key = k}}
        IN  CHOOSE m \in ids : \A n \in ids : n <= m]

\* const canDebounce = debounceMs > 0 && (options.shouldDebounce?.(item) ?? true)
CanDebounce(should) == DebounceMs > 0 /\ should

\* (mutant) scheduleFlush that leaves an armed timer as it is
ScheduleFlushOnce(b) == IF b.timer # None THEN b ELSE [b EXCEPT !.timer = DebounceMs]

\* scheduleFlush(key, buffer): clear the armed timer, arm one of debounceMs
ScheduleFlush(b) == [b EXCEPT !.timer = DebounceMs]

NoThrow == [onError |-> FALSE, promise |-> ""]

DebounceInit ==
    /\ optDebounce \in DebounceOptions
    /\ buffers = <<>>
    /\ nEnq = 0
    /\ running = {}
    /\ forced = {}
    /\ lastThrow = NoThrow
    /\ sinceLast = [k \in DebounceKeys |-> LongAgo]
    /\ chain = [k \in DebounceKeys |-> 0]
    /\ handed = [i \in 1..MaxItems |-> 0]
    /\ maxHanded = [k \in DebounceKeys |-> 0]

\* the bookkeeping of a step that invokes onFlush for the invocations cs
Invoke(cs) ==
    /\ running' = running \cup Range(cs)
    /\ handed' = HandedAfter(cs)
    /\ maxHanded' = MaxHandedAfter(cs)

\* (mutant) a bypassing enqueue that does not await the forced flush: the
\* pending batch and [item] are handed to onFlush in the same step
EnqueueBypassNoAwait(key, should) ==
    /\ nEnq < MaxItems
    /\ ~CanDebounce(should) \/ key = NullKey
    /\ nEnq' = nEnq + 1
    /\ IF key # NullKey /\ BufferHas(key)
       THEN /\ buffers' = BufferDelete(buffers, key)
            /\ Invoke(FlushBufferCalls(BufferGet(key), "bypass", 0)
                          \o <<SingleCall(key, nEnq + 1)>>)
       ELSE /\ buffers' = buffers
            /\ Invoke(<<SingleCall(key, nEnq + 1)>>)
    /\ chain' = IF key # NullKey THEN [chain EXCEPT ![key] = 0] ELSE chain
    /\ lastThrow' = NoThrow
    /\ UNCHANGED <<dedupeVars, credsVars, restVars, optDebounce, forced, sinceLast>>

\* enqueue(item), item bypassing the debouncer (debouncing off, shouldDebounce
\* false, or no key): a pending buffer of the key is flushed and awaited
\* first, then onFlush([item]) is invoked and awaited
EnqueueBypass(key, should) ==
    /\ nEnq < MaxItems
    /\ ~CanDebounce(should) \/ key = NullKey
    /\ nEnq' = nEnq + 1
    /\ IF key # NullKey /\ BufferHas(key)
       THEN /\ buffers' = BufferDelete(buffers, key)
            /\ Invoke(FlushBufferCalls(BufferGet(key), "bypass", nEnq + 1))
       ELSE /\ buffers' = buffers
            /\ Invoke(<<SingleCall(key, nEnq + 1)>>)
    /\ chain' = IF key # NullKey THEN [chain EXCEPT ![key] = 0] ELSE chain
    /\ lastThrow' = NoThrow
    /\ UNCHANGED <<dedupeVars, credsVars, restVars, optDebounce, forced, sinceLast>>

\* enqueue(item), item debounced: pushed on the key's buffer (a new one if
\* none is pending) and the buffer's flush is scheduled anew
EnqueueDebounced(key) ==
    /\ nEnq < MaxItems
    /\ CanDebounce(TRUE) /\ key # NullKey
    /\ nEnq' = nEnq + 1
    /\ LET item == [id |-> nEnq + 1, prev |-> chain[key],
                    linked |-> chain[key] # 0 /\ sinceLast[key] < DebounceMs,
                    near |-> sinceLast[key] <= DebounceMs]
       IN  buffers' =
             IF BufferHas(key)
             THEN [i \in DOMAIN buffers |->
                     IF buffers[i].key = key
                     THEN ScheduleFlush([buffers[i] EXCEPT !.items = Append(@, item)])
                     ELSE buffers[i]]
             ELSE Append(buffers, ScheduleFlush([key |-> key, items |-> <<item>>, timer |-> None]))
    /\ chain' = [chain EXCEPT ![key] = nEnq + 1]
    /\ sinceLast' = [sinceLast EXCEPT ![key] = 0]
    /\ lastThrow' = NoThrow
    /\ UNCHANGED <<dedupeVars, credsVars, restVars, optDebounce, running, forced, handed, maxHanded>>

\* (mutant) a timer callback that waits until no handler is running
TimerFireWhenIdle(key) ==
    /\ running = {}
    /\ BufferHas(key) /\ BufferGet(key).timer = 0
    /\ buffers' = BufferDelete(buffers, key)
    /\ Invoke(FlushBufferCalls(BufferGet(key), "timer", 0))
    /\ lastThrow' = NoThrow
    /\ UNCHANGED <<dedupeVars, credsVars, restVars, optDebounce, nEnq, forced, sinceLast, chain>>

\* the callback of a buffer's setTimeout runs: void flushBuffer(key, buffer)
TimerFire(key) ==
    /\ BufferHas(key) /\ BufferGet(key).timer = 0
    /\ buffers' = BufferDelete(buffers, key)
    /\ Invoke(FlushBufferCalls(BufferGet(key), "timer", 0))
    /\ lastThrow' = NoThrow
    /\ UNCHANGED <<dedupeVars, credsVars, restVars, optDebounce, nEnq, forced, sinceLast, chain>>

\* one millisecond passes; a timer that is due runs before time moves on
Tick ==
    /\ \A i \in DOMAIN buffers : buffers[i].timer > 0
    /\ buffers' = [i \in DOMAIN buffers |-> [buffers[i] EXCEPT !.timer = @ - 1]]
    /\ sinceLast' = [k \in DebounceKeys |->
                        IF sinceLast[k] < LongAgo THEN sinceLast[k] + 1 ELSE LongAgo]
    /\ lastThrow' = NoThrow
    /\ UNCHANGED <<dedupeVars, credsVars, restVars, optDebounce, nEnq, running, forced, chain, handed, maxHanded>>

\* the promise of a flushKey or flushAll call that awaits the invocations ids
ForcedPromise(ids) == [started |-> ids, awaits |-> ids]

\* flushKey(key) called from outside; with no buffer for the key its promise
\* resolves at once
FlushKey(key) ==
    /\ LET cs == IF BufferHas(key)
                 THEN FlushBufferCalls(BufferGet(key), "flushKey", 0) ELSE <<>>
           p == ForcedPromise({cs[c].id : c \in DOMAIN cs})
       IN  /\ buffers' = BufferDelete(buffers, key)
           /\ Invoke(cs)
           /\ forced' = IF cs = <<>> THEN forced ELSE forced \cup {p}
           /\ lastThrow' = NoThrow
    /\ chain' = [chain EXCEPT ![key] = 0]
    /\ UNCHANGED <<dedupeVars, credsVars, restVars, optDebounce, nEnq, sinceLast>>

\* flushAll(): flushKey for every key of the Map, in the Map's order, all
\* started before any await
FlushAll ==
    /\ LET cs == [i \in DOMAIN buffers |-> FlushCall(buffers[i], "flushAll", 0)]
           p == ForcedPromise({cs[c].id : c \in DOMAIN cs})
       IN  /\ buffers' = <<>>
           /\ Invoke(cs)
           /\ forced' = IF cs = <<>> THEN forced ELSE forced \cup {p}
           /\ lastThrow' = NoThrow
    /\ chain' = [k \in DebounceKeys |-> 0]
    /\ UNCHANGED <<dedupeVars, credsVars, restVars, optDebounce, nEnq, sinceLast>>

\* flushBuffer's try/catch around await options.onFlush(buffer.items):
\* whether options.onError is called for the outcome
FlushBufferCatches(outcome) == outcome = "threw"

\* enqueue's await options.onFlush([item]) has no try/catch: the promise
\* enqueue returned settles as the handler did
SingleSettles(outcome) == IF outcome = "threw" THEN "rejected" ELSE "resolved"

\* the handler invocation r settles (resolves, or throws or rejects), and
\* what awaited it goes on: flushBuffer's catch, then the flushKey/flushAll
\* promises waiting for it, or the enqueue waiting for it, which goes on to
\* invoke onFlush([item]) or settles
HandlerDone(r, outcome) ==
    /\ r \in running
    /\ LET single == r.cause = "single"
           cs == IF r.resume # 0 THEN <<SingleCall(r.key, r.resume)>> ELSE <<>>
           left == [f \in forced |-> [f EXCEPT !.awaits = @ \ {r.id}]]
       IN  /\ running' = (running \ {r}) \cup Range(cs)
           /\ handed' = HandedAfter(cs)
           /\ maxHanded' = MaxHandedAfter(cs)
           /\ forced' = {left[f] : f \in {g \in forced : left[g].awaits # {}}}
           /\ lastThrow' =
                IF outcome = "threw"
                THEN [onError |-> ~single /\ FlushBufferCatches(outcome),
                      promise |-> IF single THEN SingleSettles(outcome) ELSE "pending"]
                ELSE NoThrow
    /\ UNCHANGED <<dedupeVars, credsVars, restVars, optDebounce, buffers, nEnq, sinceLast, chain>>

DebounceNext ==
    \/ \E key \in DebounceKeys \cup {NullKey}, should \in BOOLEAN : EnqueueBypass(key, should)
    \/ \E key \in DebounceKeys : EnqueueDebounced(key)
    \/ \E key \in DebounceKeys : TimerFire(key)
    \/ Tick
    \/ \E key \in DebounceKeys : FlushKey(key)
    \/ FlushAll
    \/ \E r \in running, outcome \in {"ok", "threw"} : HandlerDone(r, outcome)

(***************************************************************************)
(* Credential save queue                                                   *)
(***************************************************************************)
\* What a credentials file can hold. "empty" is a file of at most one byte,
\* "valid" a JSON document of more than one byte, "corrupt" anything longer
\* than one byte that JSON.parse rejects (a partial write, say); ver tells
\* the contents of different saves apart.
Missing == [kind |-> "missing", ver |-> 0]
Empty == [kind |-> "empty", ver |-> 0]
ValidCreds(v) == [kind |-> "valid", ver |-> v]
CorruptCreds(v) == [kind |-> "corrupt", ver |-> v]

\* readCredsJsonRaw(filePath): null (here Missing) unless the file exists
\* and has more than one byte, else its content
ReadCredsJsonRaw(file) == IF file.kind \in {"missing", "empty"} THEN Missing ELSE file

\* JSON.parse(raw) throws
ParseThrows(raw) == raw.kind # "valid"

\* (mutant) the backup step without the JSON validation
BackupStepUnvalidated(main, backup) ==
    IF ReadCredsJsonRaw(main) # Missing THEN main ELSE backup

\* safeSaveCreds, the best-effort backup before saving: the backup file it
\* leaves. copyFileSync only when the main file was read and parses.
BackupStep(main, backup) ==
    LET raw == ReadCredsJsonRaw(main)
    IN  IF raw # Missing /\ ~ParseThrows(raw) THEN main ELSE backup

\* safeSaveCreds, the same step: whether the logger is warned that the
\* current credentials file is corrupted
BackupStepWarns(main) ==
    LET raw == ReadCredsJsonRaw(main)
    IN  raw # Missing /\ ParseThrows(raw)

\* (mutant) maybeRestoreCredsFromBackup without the validation of the backup
MaybeRestoreUnvalidated(main, backup) ==
    LET raw == ReadCredsJsonRaw(main)
        backupRaw == ReadCredsJsonRaw(backup)
    IN  IF raw # Missing /\ ~ParseThrows(raw)
        THEN [ret |-> "false", main |-> main]
        ELSE IF backupRaw # Missing
        THEN [ret |-> "true", main |-> backup]
        ELSE [ret |-> "false", main |-> main]

\* (mutant) maybeRestoreCredsFromBackup that takes only an unparseable main
\* file for a damaged one, not a missing or empty one
MaybeRestoreOnlyUnparseable(main, backup) ==
    LET raw == ReadCredsJsonRaw(main)
        backupRaw == ReadCredsJsonRaw(backup)
    IN  IF raw = Missing \/ ~ParseThrows(raw)
        THEN [ret |-> "false", main |-> main]
        ELSE IF backupRaw # Missing /\ ~ParseThrows(backupRaw)
        THEN [ret |-> "true", main |-> backup]
        ELSE [ret |-> "false", main |-> main]

\* maybeRestoreCredsFromBackup: what it returns and the main file it leaves.
\* Both JSON.parse calls sit in a try whose catch falls through.
MaybeRestore(main, backup) ==
    LET raw == ReadCredsJsonRaw(main)
        backupRaw == ReadCredsJsonRaw(backup)
    IN  IF raw # Missing /\ ~ParseThrows(raw)
        THEN [ret |-> "false", main |-> main]
        ELSE IF backupRaw # Missing /\ ~ParseThrows(backupRaw)
        THEN [ret |-> "true", main |-> backup]
        ELSE [ret |-> "false", main |-> main]

\* (mutant) the chain without its .catch: a rejection stays a rejection
QueueCatchMissing(settled) == settled

\* .catch((err) => options.logger?.warn(...)) at the end of each link of the
\* chain: a rejected link becomes a fulfilled one
QueueCatch(settled) == IF settled = "rejected" THEN "fulfilled" ELSE settled

\* the promise the i-th enqueue chained on: Promise.resolve() for the first
ChainedOn(i) == IF i = 1 THEN "fulfilled" ELSE ops[i - 1].chain

\* (mutant) the save started without waiting for the chain
ThenRunsUnchained(i) == TRUE

\* queue.then(() => safeSaveCreds(...)): the callback runs once the promise
\* it is chained on is fulfilled
ThenRuns(i) == ChainedOn(i) = "fulfilled"

NoRestore == [ret |-> "", main |-> Missing, backup |-> Missing, last |-> Missing]

\* the contents the files may hold when the process first starts
InitialFiles == {Missing, Empty, ValidCreds(0), CorruptCreds(0)}

CredsInit ==
    /\ mainFile \in InitialFiles
    /\ backupFile \in InitialFiles
    /\ proc = "down"
    /\ ops = <<>>
    /\ flushes = {}
    /\ nSaves = 0
    /\ lastValid = IF mainFile.kind = "valid" THEN mainFile ELSE Missing
    /\ savedValid = FALSE
    /\ tornAtCrash = FALSE
    /\ restoreRet = NoRestore

\* the history of the main file, kept by every step that writes it
MainBecomes(file) ==
    /\ mainFile' = file
    /\ lastValid' = IF file.kind = "valid" THEN file ELSE lastValid

\* the process starts: maybeRestoreCredsFromBackup, then a new, empty queue
Startup ==
    /\ proc = "down"
    /\ proc' = "up"
    /\ LET r == MaybeRestore(mainFile, backupFile)
       IN  /\ MainBecomes(r.main)
           /\ restoreRet' = [ret |-> r.ret, main |-> mainFile, backup |-> backupFile,
                             last |-> lastValid]
    /\ UNCHANGED <<dedupeVars, debounceVars, restVars, backupFile, ops, flushes, nSaves,
                   savedValid, tornAtCrash>>

\* (mutant) enqueue that takes the backup itself, when the save is queued
CredsEnqueueBacksUp ==
    /\ proc = "up"
    /\ nSaves < MaxSaves
    /\ nSaves' = nSaves + 1
    /\ ops' = Append(ops, [ver |-> nSaves + 1, state |-> "queued", chain |-> "pending",
                           corruptWarned |-> FALSE, saveWarned |-> FALSE,
                           queueWarned |-> FALSE, backupWarned |-> FALSE])
    /\ backupFile' = BackupStep(mainFile, backupFile)
    /\ restoreRet' = NoRestore
    /\ UNCHANGED <<dedupeVars, debounceVars, restVars, mainFile, proc, flushes,
                   lastValid, savedValid, tornAtCrash>>

\* enqueue(saveCreds): a link is added to the promise chain
CredsEnqueue ==
    /\ proc = "up"
    /\ nSaves < MaxSaves
    /\ nSaves' = nSaves + 1
    /\ ops' = Append(ops, [ver |-> nSaves + 1, state |-> "queued", chain |-> "pending",
                           corruptWarned |-> FALSE, saveWarned |-> FALSE,
                           queueWarned |-> FALSE, backupWarned |-> FALSE])
    /\ restoreRet' = NoRestore
    /\ UNCHANGED <<dedupeVars, debounceVars, restVars, mainFile, backupFile, proc, flushes,
                   lastValid, savedValid, tornAtCrash>>

\* the link of operation i gets its turn: if the promise it is chained on is
\* fulfilled, safeSaveCreds runs its backup step and calls saveCreds();
\* if it is rejected, the callback is skipped and .catch handles the rejection
OpStart(i) ==
    /\ proc = "up"
    /\ i \in DOMAIN ops /\ ops[i].state = "queued"
    /\ ThenRuns(i) \/ ChainedOn(i) = "rejected"
    /\ IF ThenRuns(i)
       THEN /\ backupFile' = BackupStep(mainFile, backupFile)
            /\ ops' = [ops EXCEPT ![i].state = "running",
                                  ![i].corruptWarned = BackupStepWarns(mainFile)]
       ELSE /\ backupFile' = backupFile
            /\ ops' = [ops EXCEPT ![i].state = "skipped",
                                  ![i].chain = QueueCatch("rejected"),
                                  ![i].queueWarned = (QueueCatch("rejected") = "fulfilled")]
    /\ restoreRet' = NoRestore
    /\ UNCHANGED <<dedupeVars, debounceVars, restVars, mainFile, proc, flushes, nSaves,
                   lastValid, savedValid, tornAtCrash>>

\* saveCreds() of the running operation i has written part of the file: the
\* file is truncated, or holds the beginning of the new content
SaveWrites(i, file) ==
    /\ proc = "up"
    /\ i \in DOMAIN ops /\ ops[i].state = "running"
    /\ file \in {Empty, CorruptCreds(ops[i].ver)}
    /\ mainFile # file
    /\ MainBecomes(file)
    /\ restoreRet' = NoRestore
    /\ UNCHANGED <<dedupeVars, debounceVars, restVars, backupFile, proc, ops, flushes, nSaves,
                   savedValid, tornAtCrash>>

\* saveCreds() of operation i completes, having written valid credentials or
\* content that does not parse: safeSaveCreds resolves, and so does the link
SaveCompletes(i, file) ==
    /\ proc = "up"
    /\ i \in DOMAIN ops /\ ops[i].state = "running"
    /\ file \in {ValidCreds(ops[i].ver), CorruptCreds(ops[i].ver)}
    /\ MainBecomes(file)
    /\ savedValid' = (savedValid \/ file.kind = "valid")
    /\ ops' = [ops EXCEPT ![i].state = "ok", ![i].chain = QueueCatch("fulfilled")]
    /\ restoreRet' = NoRestore
    /\ UNCHANGED <<dedupeVars, debounceVars, restVars, backupFile, proc, flushes, nSaves, tornAtCrash>>

\* saveCreds() of operation i throws or rejects, leaving the file as it is by
\* then: safeSaveCreds warns and rethrows, the chain's .catch warns
SaveFails(i) ==
    /\ proc = "up"
    /\ i \in DOMAIN ops /\ ops[i].state = "running"
    /\ ops' = [ops EXCEPT ![i].state = "failed", ![i].chain = QueueCatch("rejected"),
                          ![i].saveWarned = TRUE,
                          ![i].queueWarned = (QueueCatch("rejected") = "fulfilled")]
    /\ restoreRet' = NoRestore
    /\ UNCHANGED <<dedupeVars, debounceVars, restVars, mainFile, backupFile, proc, flushes, nSaves,
                   lastValid, savedValid, tornAtCrash>>

\* (mutant) flush() awaiting the first link of the chain instead of the latest
AwaitedFirst(upto) == IF upto = 0 THEN "fulfilled" ELSE ops[1].chain

\* the state of the promise queue held when flush() was called after upto
\* enqueues: Promise.resolve() when nothing was enqueued
Awaited(upto) == IF upto = 0 THEN "fulfilled" ELSE ops[upto].chain

\* flush(): await queue, the link of the latest enqueue (0: Promise.resolve());
\* the caller calls it again only once the earlier call has settled
CredsFlush ==
    /\ proc = "up"
    /\ \A f \in flushes : f.status # "pending"
    /\ flushes' = {[upto |-> Len(ops), status |-> "pending"]}
    /\ restoreRet' = NoRestore
    /\ UNCHANGED <<dedupeVars, debounceVars, restVars, mainFile, backupFile, proc, ops, nSaves,
                   lastValid, savedValid, tornAtCrash>>

\* the promise a flush() call awaits has settled: flush() settles like it
FlushSettles(upto) ==
    /\ proc = "up"
    /\ LET f == [upto |-> upto, status |-> "pending"]
           awaited == Awaited(upto)
       IN  /\ f \in flushes
           /\ awaited # "pending"
           /\ flushes' = {[f EXCEPT !.status = IF awaited = "fulfilled" THEN "resolved"
                                                ELSE "rejected"]}
    /\ restoreRet' = NoRestore
    /\ UNCHANGED <<dedupeVars, debounceVars, restVars, mainFile, backupFile, proc, ops, nSaves,
                   lastValid, savedValid, tornAtCrash>>

\* the process dies: the queue and its promises are gone, the files stay
Crash ==
    /\ proc = "up"
    /\ proc' = "down"
    /\ ops' = <<>>
    /\ flushes' = {}
    /\ tornAtCrash' = /\ \E i \in DOMAIN ops : ops[i].state = "running"
                      /\ mainFile.kind # "valid"
    /\ restoreRet' = NoRestore
    /\ UNCHANGED <<dedupeVars, debounceVars, restVars, mainFile, backupFile, nSaves, lastValid,
                   savedValid>>

\* (mutant) safeSaveCreds without the try around the backup: what the copy
\* throws ends the operation
BackupCatchMissing(thrown) == IF thrown THEN "failed" ELSE "running"

\* safeSaveCreds, catch (backupErr): a failure of the backup is logged and
\* ignored, and the operation goes on to saveCreds()
BackupCatch(thrown) == "running"

\* what a copyFileSync that throws can leave at the backup path: the file as
\* it was, no file, or the beginning of the copy
FailedCopyLeaves(left, main, backup) ==
    CASE left = "untouched" -> backup
      [] left = "removed" -> Missing
      [] left = "truncated" -> Empty
      [] left = "partial" -> CorruptCreds(main.ver)

\* the link of operation i gets its turn, the main file is read and parses,
\* and copyFileSync(credsPath, backupPath) throws
OpStartCopyFails(i, left) ==
    /\ proc = "up"
    /\ i \in DOMAIN ops /\ ops[i].state = "queued"
    /\ ThenRuns(i)
    /\ ReadCredsJsonRaw(mainFile) # Missing /\ ~ParseThrows(ReadCredsJsonRaw(mainFile))
    /\ backupFile' = FailedCopyLeaves(left, mainFile, backupFile)
    /\ LET next == BackupCatch(TRUE)
       IN  ops' = [ops EXCEPT ![i].state = next,
                              ![i].backupWarned = (next = "running"),
                              ![i].chain = IF next = "failed" THEN QueueCatch("rejected")
                                           ELSE @]
    /\ restoreRet' = NoRestore
    /\ UNCHANGED <<dedupeVars, debounceVars, restVars, mainFile, proc, flushes, nSaves,
                   lastValid, savedValid, tornAtCrash>>

CredsNext ==
    \/ Startup
    \/ CredsEnqueue
    \/ \E i \in 1..MaxSaves : OpStart(i)
    \/ \E i \in 1..MaxSaves, file \in {Empty} \cup {CorruptCreds(v) : v \in 1..MaxSaves} :
          SaveWrites(i, file)
    \/ \E i \in 1..MaxSaves,
          file \in {ValidCreds(v) : v \in 1..MaxSaves} \cup {CorruptCreds(v) : v \in 1..MaxSaves} :
          SaveCompletes(i, file)
    \/ \E i \in 1..MaxSaves : SaveFails(i)
    \/ CredsFlush
    \/ \E upto \in 0..MaxSaves : FlushSettles(upto)
    \/ Crash

\* the queue on a file system where the copy to the backup path can fail
CredsFaultyNext ==
    \/ CredsNext
    \/ \E i \in 1..MaxSaves, left \in {"untouched", "removed", "truncated", "partial"} :
          OpStartCopyFails(i, left)

(***************************************************************************)
(* Identifiers                                                             *)
(***************************************************************************)
\* A string is the sequence of its pieces: "77:2@lid" is
\* <<"77", ":", "2", "@lid">>, the empty string is <<>>. The pieces "@lid",
\* "@s.whatsapp.net" and "@g.us" are the domains, ":" the device separator,
\* the others runs of digits.
EmptyString == <<>>
\* undefined or null: no value at all
Undefined == <<"undefined">>

\* a JavaScript condition on a string that may be undefined: if (value)
Truthy(value) == value # Undefined /\ value # EmptyString

\* (mutant) isLid that takes every identifier with a domain for a linked one
IsLidAnyDomain(remoteJid) ==
    /\ Truthy(remoteJid)
    /\ \E i \in DOMAIN remoteJid : remoteJid[i] \in {"@lid", "@s.whatsapp.net", "@g.us"}

\* isLid(remoteJid): remoteJid.includes("@lid")
IsLid(remoteJid) ==
    /\ Truthy(remoteJid)
    /\ \E i \in DOMAIN remoteJid : remoteJid[i] = "@lid"

(***************************************************************************)
(* Outbound: resolveSendJid, sendWhatsAppMessage, sendWhatsAppFile         *)
(***************************************************************************)
LidA == <<"77", "@lid">>
PnDirect == <<"15550001", "@s.whatsapp.net">>
GroupJid == <<"120363", "@g.us">>
\* what a send may be addressed to
ChatIds == {LidA, PnDirect, GroupJid}
Lids == {LidA}

BotNumber == <<"15550009">>
PnNative == <<"15550002", "@s.whatsapp.net">>
PnManual == <<"15550003", "@s.whatsapp.net">>
\* what the two mappings may hold for a linked identifier
NativeEntries == {Undefined, EmptyString, PnNative}
ManualEntries == {Undefined, EmptyString, PnManual}
\* sock.signalRepository.lidMapping when it is there, with no entry yet, and
\* when sock.signalRepository, or its lidMapping, is undefined
NoEntries == [present |-> TRUE, entries |-> <<>>]
Absent == [present |-> FALSE, entries |-> <<>>]

SentIdTtlMs == 60000
StoreTtlMs == 86400000

NoResolve == [chatId |-> Undefined, outcome |-> "", jid |-> Undefined, looked |-> {}]
NoSend == [fn |-> "", chatId |-> Undefined, outcome |-> "", calls |-> <<>>, messageId |-> ""]

\* signalRepo?.lidMapping?.get(chatId)
SignalMapping(chatId) ==
    IF ~lidMapping.present \/ chatId \notin DOMAIN lidMapping.entries THEN Undefined
    ELSE lidMapping.entries[chatId]

\* lidMapper.lidToJid.get(chatId)
ManualMapping(chatId) ==
    IF chatId \notin DOMAIN lidToJid THEN Undefined ELSE lidToJid[chatId]

\* `${lidMapper.myNumber}@s.whatsapp.net`
OwnJid == myNumber \o <<"@s.whatsapp.net">>

\* (mutant) resolveSendJid that consults the manual mapping before the
\* transport's own
ResolveSendJidManualFirst(chatId) ==
    IF ~IsLid(chatId)
    THEN [outcome |-> "returned", jid |-> chatId, looked |-> {}]
    ELSE IF chatId = selfChatLid /\ Truthy(myNumber)
    THEN [outcome |-> "returned", jid |-> OwnJid, looked |-> {}]
    ELSE IF Truthy(ManualMapping(chatId))
    THEN [outcome |-> "returned", jid |-> ManualMapping(chatId), looked |-> {"manual"}]
    ELSE IF Truthy(SignalMapping(chatId))
    THEN [outcome |-> "returned", jid |-> SignalMapping(chatId), looked |-> {"manual", "native"}]
    ELSE [outcome |-> "threw", jid |-> Undefined, looked |-> {"native", "manual"}]

\* (mutant) resolveSendJid that falls back to the identifier itself
ResolveSendJidGuesses(chatId) ==
    IF ~IsLid(chatId)
    THEN [outcome |-> "returned", jid |-> chatId, looked |-> {}]
    ELSE IF chatId = selfChatLid /\ Truthy(myNumber)
    THEN [outcome |-> "returned", jid |-> OwnJid, looked |-> {}]
    ELSE IF Truthy(SignalMapping(chatId))
    THEN [outcome |-> "returned", jid |-> SignalMapping(chatId), looked |-> {"native"}]
    ELSE IF Truthy(ManualMapping(chatId))
    THEN [outcome |-> "returned", jid |-> ManualMapping(chatId), looked |-> {"native", "manual"}]
    ELSE [outcome |-> "returned", jid |-> chatId, looked |-> {"native", "manual"}]

\* resolveSendJid(chatId, sock, lidMapper): what it returns, or that it
\* throws, and the mappings it consulted on the way
ResolveSendJid(chatId) ==
    IF ~IsLid(chatId)
    THEN [outcome |-> "returned", jid |-> chatId, looked |-> {}]
    ELSE IF chatId = selfChatLid /\ Truthy(myNumber)
    THEN [outcome |-> "returned", jid |-> OwnJid, looked |-> {}]
    ELSE IF Truthy(SignalMapping(chatId))
    THEN [outcome |-> "returned", jid |-> SignalMapping(chatId), looked |-> {"native"}]
    ELSE IF Truthy(ManualMapping(chatId))
    THEN [outcome |-> "returned", jid |-> ManualMapping(chatId), looked |-> {"native", "manual"}]
    ELSE [outcome |-> "threw", jid |-> Undefined, looked |-> {"native", "manual"}]

OutboundInit ==
    /\ selfChatLid \in {EmptyString, LidA}
    /\ myNumber \in {EmptyString, BotNumber}
    /\ lidToJid = <<>>
    /\ lidMapping \in {Absent, NoEntries}
    /\ hasStore \in BOOLEAN
    /\ sentMessageIds = {}
    /\ messageStore = {}
    /\ outTimers = {}
    /\ outNow = 0
    /\ nSends = 0
    /\ resolveRet = NoResolve
    /\ sendRet = NoSend

\* the adapter records the sender of a received message: lidToJid.set
ObserveSender(lid, entry) ==
    /\ entry # Undefined
    /\ ManualMapping(lid) # entry
    /\ lidToJid' = [l \in DOMAIN lidToJid \cup {lid} |-> IF l = lid THEN entry ELSE lidToJid[l]]
    /\ resolveRet' = NoResolve /\ sendRet' = NoSend
    /\ UNCHANGED <<dedupeVars, debounceVars, credsVars, gatingVars, metaVars, utilVars, selfChatLid, myNumber, lidMapping,
                   hasStore, sentMessageIds, messageStore, outTimers, outNow, nSends>>

\* the transport records a mapping of its own
TransportMaps(lid, entry) ==
    /\ lidMapping.present
    /\ entry # Undefined
    /\ SignalMapping(lid) # entry
    /\ lidMapping' = [lidMapping EXCEPT !.entries =
                         [l \in DOMAIN lidMapping.entries \cup {lid} |->
                             IF l = lid THEN entry ELSE lidMapping.entries[l]]]
    /\ resolveRet' = NoResolve /\ sendRet' = NoSend
    /\ UNCHANGED <<dedupeVars, debounceVars, credsVars, gatingVars, metaVars, utilVars, selfChatLid, myNumber, lidToJid,
                   hasStore, sentMessageIds, messageStore, outTimers, outNow, nSends>>

\* a call of resolveSendJid
Resolve(chatId) ==
    /\ LET r == ResolveSendJid(chatId)
       IN  resolveRet' = [chatId |-> chatId, outcome |-> r.outcome, jid |-> r.jid,
                          looked |-> r.looked]
    /\ resolveRet' # resolveRet
    /\ sendRet' = NoSend
    /\ UNCHANGED <<dedupeVars, debounceVars, credsVars, gatingVars, metaVars, utilVars, selfChatLid, myNumber, lidToJid,
                   lidMapping, hasStore, sentMessageIds, messageStore, outTimers, outNow,
                   nSends>>

\* what sock.sendMessage may do: throw, return undefined, return a message
\* without an id, or return a message with an id
MessageIds == {"m1", "m2"}
SendResults == {"throws", "undefined", ""} \cup MessageIds

SocketCall(method, jid) == [method |-> method, jid |-> jid]

\* (mutant) the cleanup of the sent id set for half the time
CleanupTimersEarly(id, stored) ==
    {[kind |-> "sent", id |-> id, due |-> outNow + (SentIdTtlMs \div 2)]}
        \cup (IF stored THEN {[kind |-> "store", id |-> id, due |-> outNow + StoreTtlMs]}
              ELSE {})

\* the cleanup timers a send sets for the id it got: setTimeout(..., 60000),
\* and setTimeout(..., 24 * 60 * 60 * 1000) if the message was stored
CleanupTimers(id, stored) ==
    {[kind |-> "sent", id |-> id, due |-> outNow + SentIdTtlMs]}
        \cup (IF stored THEN {[kind |-> "store", id |-> id, due |-> outNow + StoreTtlMs]}
              ELSE {})

\* the part the two send functions share: the outcome of sock.sendMessage is
\* known, the id is tracked and the message stored
TrackSent(fn, chatId, calls, result) ==
    LET messageId == IF result \in {"throws", "undefined"} THEN "" ELSE result
        stored == messageId # "" /\ result # "undefined" /\ hasStore
    IN  IF result = "throws"
        THEN /\ sendRet' = [fn |-> fn, chatId |-> chatId, outcome |-> "threw",
                            calls |-> calls, messageId |-> ""]
             /\ UNCHANGED <<sentMessageIds, messageStore, outTimers>>
        ELSE /\ sendRet' = [fn |-> fn, chatId |-> chatId, outcome |-> "returned",
                            calls |-> calls, messageId |-> messageId]
             /\ sentMessageIds' = IF messageId # "" THEN sentMessageIds \cup {messageId}
                                  ELSE sentMessageIds
             /\ messageStore' = IF stored THEN messageStore \cup {messageId} ELSE messageStore
             /\ outTimers' = IF messageId # "" THEN outTimers \cup CleanupTimers(messageId, stored)
                             ELSE outTimers

\* a send that fails before it reaches the socket
SendFailsEarly(fn, chatId) ==
    /\ sendRet' = [fn |-> fn, chatId |-> chatId, outcome |-> "threw", calls |-> <<>>,
                   messageId |-> ""]
    /\ UNCHANGED <<sentMessageIds, messageStore, outTimers>>

\* sendWhatsAppMessage(sock, msg, lidMapper, sentMessageIds), from the call
\* to the settling of its promise. The presence update may throw, which is
\* ignored.
SendWhatsAppMessage(connected, chatId, result) ==
    /\ nSends < MaxSends
    /\ nSends' = nSends + 1
    /\ IF ~connected
       THEN /\ SendFailsEarly("sendWhatsAppMessage", chatId)
            /\ resolveRet' = NoResolve
       ELSE LET r == ResolveSendJid(chatId)
            IN  /\ resolveRet' = [chatId |-> chatId, outcome |-> r.outcome, jid |-> r.jid,
                                  looked |-> r.looked]
                /\ IF r.outcome = "threw"
                   THEN SendFailsEarly("sendWhatsAppMessage", chatId)
                   ELSE TrackSent("sendWhatsAppMessage", chatId,
                                  <<SocketCall("sendPresenceUpdate", r.jid),
                                    SocketCall("sendMessage", r.jid)>>, result)
    /\ UNCHANGED <<dedupeVars, debounceVars, credsVars, gatingVars, metaVars, utilVars, selfChatLid, myNumber, lidToJid,
                   lidMapping, hasStore, outNow>>

\* sendWhatsAppFile(sock, file, lidMapper, sentMessageIds)
SendWhatsAppFile(connected, chatId, result) ==
    /\ nSends < MaxSends
    /\ nSends' = nSends + 1
    /\ IF ~connected
       THEN /\ SendFailsEarly("sendWhatsAppFile", chatId)
            /\ resolveRet' = NoResolve
       ELSE LET r == ResolveSendJid(chatId)
            IN  /\ resolveRet' = [chatId |-> chatId, outcome |-> r.outcome, jid |-> r.jid,
                                  looked |-> r.looked]
                /\ IF r.outcome = "threw"
                   THEN SendFailsEarly("sendWhatsAppFile", chatId)
                   ELSE TrackSent("sendWhatsAppFile", chatId,
                                  <<SocketCall("sendMessage", r.jid)>>, result)
    /\ UNCHANGED <<dedupeVars, debounceVars, credsVars, gatingVars, metaVars, utilVars, selfChatLid, myNumber, lidToJid,
                   lidMapping, hasStore, outNow>>

\* a cleanup timer fires: sentMessageIds.delete or messageStore?.delete
CleanupFires(t) ==
    /\ t \in outTimers /\ t.due = outNow
    /\ outTimers' = outTimers \ {t}
    /\ sentMessageIds' = IF t.kind = "sent" THEN sentMessageIds \ {t.id} ELSE sentMessageIds
    /\ messageStore' = IF t.kind = "store" THEN messageStore \ {t.id} ELSE messageStore
    /\ resolveRet' = NoResolve /\ sendRet' = NoSend
    /\ UNCHANGED <<dedupeVars, debounceVars, credsVars, gatingVars, metaVars, utilVars, selfChatLid, myNumber, lidToJid,
                   lidMapping, hasStore, outNow, nSends>>

\* time passes, no further than the next timer: by half the life of a sent
\* id while one is tracked, else to the next timer
OutTick ==
    /\ outTimers # {}
    /\ \A t \in outTimers : t.due > outNow
    /\ outNow' = IF \E t \in outTimers : t.kind = "sent"
                 THEN outNow + (SentIdTtlMs \div 2)
                 ELSE CHOOSE due \in {t.due : t \in outTimers} :
                          \A t \in outTimers : due <= t.due
    /\ resolveRet' = NoResolve /\ sendRet' = NoSend
    /\ UNCHANGED <<dedupeVars, debounceVars, credsVars, gatingVars, metaVars, utilVars, selfChatLid, myNumber, lidToJid,
                   lidMapping, hasStore, sentMessageIds, messageStore, outTimers, nSends>>

OutboundNext ==
    \/ \E lid \in Lids, entry \in ManualEntries : ObserveSender(lid, entry)
    \/ \E lid \in Lids, entry \in NativeEntries : TransportMaps(lid, entry)
    \/ \E chatId \in ChatIds : Resolve(chatId)
    \/ \E connected \in BOOLEAN, chatId \in ChatIds, result \in SendResults :
          SendWhatsAppMessage(connected, chatId, result)
    \/ \E connected \in BOOLEAN, chatId \in ChatIds, result \in SendResults :
          SendWhatsAppFile(connected, chatId, result)
    \/ \E kind \in {"sent", "store"}, id \in MessageIds :
          CleanupFires([kind |-> kind, id |-> id, due |-> outNow])
    \/ OutTick

(***************************************************************************)
(* Mention detection: detectMention                                        *)
(***************************************************************************)
\* A message text is the sequence of its characters; ZeroWidth stands for
\* the characters U+200B..U+200D and U+FEFF.
ZeroWidth == "ZW"
DigitChars == {"0", "1", "5", "7"}
Domains == {"@lid", "@s.whatsapp.net", "@g.us"}
\* the runs of digits the identifiers are made of
DigitRuns == {"15", "3", "214", "26", "99", "120363", "77", "15550001", "15550002",
              "15550003", "15550009"}

\* jid.replace(/:\d+(@|$)/, '$1'): the places where the pattern matches
DeviceSuffixAt(jid) ==
    {i \in 1..(Len(jid) - 1) :
        /\ jid[i] = ":"
        /\ jid[i + 1] \in DigitRuns
        /\ (i + 1 = Len(jid) \/ jid[i + 2] \in Domains)}

\* normalizeJid(jid): '' for null, undefined and '', else the identifier
\* with the first ':N' that stands before '@' or at the end removed
NormalizeJid(jid) ==
    IF ~Truthy(jid) THEN EmptyString
    ELSE IF DeviceSuffixAt(jid) = {} THEN jid
    ELSE LET i == CHOOSE k \in DeviceSuffixAt(jid) : \A m \in DeviceSuffixAt(jid) : k <= m
         IN  SubSeq(jid, 1, i - 1) \o SubSeq(jid, i + 2, Len(jid))

RECURSIVE TrimStart(_)
TrimStart(text) == IF text # <<>> /\ Head(text) = " " THEN TrimStart(Tail(text)) ELSE text

RECURSIVE TrimEnd(_)
TrimEnd(text) ==
    IF text # <<>> /\ text[Len(text)] = " " THEN TrimEnd(SubSeq(text, 1, Len(text) - 1))
    ELSE text

IsNotZeroWidth(c) == c # ZeroWidth

\* normalizeMentionText(text): text.trim().replace(/[\u200B-\u200D\uFEFF]/g, '')
NormalizeMentionText(text) == SelectSeq(TrimEnd(TrimStart(text)), IsNotZeroWidth)

\* the lower-case form of a character, for the 'i' flag
LowerChar(c) == CASE c = "B" -> "b" [] c = "O" -> "o" [] c = "T" -> "t" [] OTHER -> c
LowerCase(text) == [i \in DOMAIN text |-> LowerChar(text[i])]

\* hay.includes(needle)
Includes(hay, needle) ==
    \E i \in 0..(Len(hay) - Len(needle)) : SubSeq(hay, i + 1, i + Len(needle)) = needle

\* The mention patterns are literal texts, but for one that does not compile.
InvalidPattern == <<"[">>
\* new RegExp(pattern, 'i') throws
RegExpThrows(pattern) == pattern = InvalidPattern
\* new RegExp(pattern, 'i').test(text), for a pattern that compiles
RegExpTest(pattern, text) == Includes(LowerCase(text), LowerCase(pattern))

IsDigitChar(c) == c \in DigitChars
\* text.replace(/\D/g, '')
DigitsOf(text) == SelectSeq(text, IsDigitChar)

MentionResult(was, implicit, method) ==
    [wasMentioned |-> was, implicitMention |-> implicit, method |-> method]

\* METHOD 1, the native mention list: some mentioned identifier is the bot's
MentionedNatively(mentionedJids, config) ==
    \E i \in DOMAIN mentionedJids :
        \/ NormalizeJid(mentionedJids[i]) = NormalizeJid(config.selfJid)
        \/ NormalizeJid(mentionedJids[i]) = NormalizeJid(config.selfLid)

\* (mutant) METHOD 2 with the try/catch around the whole loop: a pattern that
\* does not compile ends the search
MatchesPatternUntilInvalid(bodyClean, config) ==
    \E i \in DOMAIN config.mentionPatterns :
        /\ \A j \in 1..i : ~RegExpThrows(config.mentionPatterns[j])
        /\ RegExpTest(config.mentionPatterns[i], bodyClean)

\* METHOD 2: some pattern compiles and matches the cleaned text
MatchesPattern(bodyClean, config) ==
    \E i \in DOMAIN config.mentionPatterns :
        /\ ~RegExpThrows(config.mentionPatterns[i])
        /\ RegExpTest(config.mentionPatterns[i], bodyClean)

\* METHOD 3: the digits of the text include the digits of the bot's number
MentionsNumber(bodyClean, config) ==
    /\ Truthy(config.selfE164)
    /\ Includes(DigitsOf(bodyClean), DigitsOf(config.selfE164))

\* METHOD 4: the message replies to a message of the bot
IsReplyToBot(replyToSenderJid, replyToSenderE164, config) ==
    \/ /\ Truthy(NormalizeJid(replyToSenderJid))
       /\ \/ NormalizeJid(replyToSenderJid) = NormalizeJid(config.selfJid)
          \/ NormalizeJid(replyToSenderJid) = NormalizeJid(config.selfLid)
    \/ /\ Truthy(config.selfE164) /\ Truthy(replyToSenderE164)
       /\ config.selfE164 = replyToSenderE164

\* (mutant) detectMention that goes on to the weaker methods when the native
\* mention list does not name the bot
DetectMentionFallsThrough(m, config) ==
    LET bodyClean == NormalizeMentionText(m.body)
    IN  IF m.mentionedJids.given /\ Len(m.mentionedJids.jids) > 0
           /\ MentionedNatively(m.mentionedJids.jids, config)
        THEN MentionResult(TRUE, FALSE, "jid")
        ELSE IF MatchesPattern(bodyClean, config) THEN MentionResult(TRUE, FALSE, "regex")
        ELSE IF MentionsNumber(bodyClean, config) THEN MentionResult(TRUE, FALSE, "e164")
        ELSE IF IsReplyToBot(m.replyToSenderJid, m.replyToSenderE164, config)
        THEN MentionResult(TRUE, TRUE, "reply")
        ELSE MentionResult(FALSE, FALSE, "none")

\* detectMention(params): method "none" stands for a result without method
DetectMention(m, config) ==
    LET bodyClean == NormalizeMentionText(m.body)
    IN  IF m.mentionedJids.given /\ Len(m.mentionedJids.jids) > 0
        THEN IF MentionedNatively(m.mentionedJids.jids, config)
             THEN MentionResult(TRUE, FALSE, "jid")
             ELSE MentionResult(FALSE, FALSE, "none")
        ELSE IF MatchesPattern(bodyClean, config) THEN MentionResult(TRUE, FALSE, "regex")
        ELSE IF MentionsNumber(bodyClean, config) THEN MentionResult(TRUE, FALSE, "e164")
        ELSE IF IsReplyToBot(m.replyToSenderJid, m.replyToSenderE164, config)
        THEN MentionResult(TRUE, TRUE, "reply")
        ELSE MentionResult(FALSE, FALSE, "none")

(***************************************************************************)
(* Group gating: applyGroupGating                                          *)
(***************************************************************************)
Star == <<"*">>
OtherGroupJid == <<"99", "@g.us">>
GroupJids == {GroupJid, OtherGroupJid}
\* the requireMention of a group's entry: true, false, or not set
Flags == {"true", "false", "unset"}
\* params.groupsConfig: undefined, or an object with entries for some of the
\* group GroupJid and the wildcard
GroupsConfigs ==
    {[present |-> FALSE, groups |-> <<>>]}
        \cup {[present |-> TRUE, groups |-> g] :
                 g \in UNION {[K -> Flags] : K \in SUBSET {GroupJid, Star}}}

BotJid == <<"15", "@s.whatsapp.net">>
BotJidDevice == <<"15", ":", "3", "@s.whatsapp.net">>
BotLid == <<"214", "@lid">>
BotLidDevice == <<"214", ":", "26", "@lid">>
OtherJid == <<"99", "@s.whatsapp.net">>
BotE164 == <<"+", "1", "5">>

BodyPlain == <<"h", "i">>
BodyNamesBot == <<" ", "h", "i", " ", "B", ZeroWidth, "o", "t", " ">>
BodyHasNumber == <<"1", "-", "5">>
Bodies == {BodyPlain, BodyNamesBot, BodyHasNumber}
BotPattern == <<"b", "o", "t">>
PatternLists == {<<>>, <<BotPattern>>, <<InvalidPattern, BotPattern>>}
\* msg.mentionedJids: undefined, empty, or naming somebody
MentionLists ==
    {[given |-> FALSE, jids |-> <<>>], [given |-> TRUE, jids |-> <<>>],
     [given |-> TRUE, jids |-> <<OtherJid>>],
     [given |-> TRUE, jids |-> <<OtherJid, BotJid>>],
     [given |-> TRUE, jids |-> <<BotLidDevice>>]}
Messages ==
    [body : Bodies, mentionedJids : MentionLists,
     replyToSenderJid : {Undefined, BotJidDevice, OtherJid},
     replyToSenderE164 : {Undefined, BotE164}]

\* the config applyGroupGating hands to detectMention
MentionConfig ==
    [mentionPatterns |-> mentionPatterns, selfE164 |-> selfE164, selfJid |-> selfJid,
     selfLid |-> selfLid]

\* const groups = groupsConfig ?? {}
Groups == IF groupsConfig.present THEN groupsConfig.groups ELSE <<>>

\* groups[key]?.requireMention
RequireMentionOf(key) == IF key \in DOMAIN Groups THEN Groups[key] ELSE "unset"

\* (mutant) the wildcard entry asked before the entry of the group
RequireMentionWildcardFirst(groupJid) ==
    IF RequireMentionOf(Star) # "unset" THEN RequireMentionOf(Star) = "true"
    ELSE IF RequireMentionOf(groupJid) # "unset" THEN RequireMentionOf(groupJid) = "true"
    ELSE TRUE

\* groupConfig?.requireMention ?? wildcardConfig?.requireMention ?? true
RequireMention(groupJid) ==
    IF RequireMentionOf(groupJid) # "unset" THEN RequireMentionOf(groupJid) = "true"
    ELSE IF RequireMentionOf(Star) # "unset" THEN RequireMentionOf(Star) = "true"
    ELSE TRUE

\* (mutant) the allowlist that lets every group pass
AllowlistRejectsNever(groupJid) == FALSE

\* step 1 of applyGroupGating: the allowlist is on and has neither the
\* wildcard nor the group
AllowlistRejects(groupJid) ==
    /\ DOMAIN Groups # {}
    /\ Star \notin DOMAIN Groups
    /\ groupJid \notin DOMAIN Groups

NotRun == MentionResult(FALSE, FALSE, "not-run")

\* (mutant) applyGroupGating that runs the mention detection before it looks
\* at requireMention, and reports what it found
ApplyGroupGatingDetectsFirst(m, groupJid) ==
    LET found == DetectMention(m, MentionConfig)
    IN  IF AllowlistRejects(groupJid)
        THEN [shouldProcess |-> FALSE, wasMentioned |-> "absent",
              reason |-> "group-not-in-allowlist", detect |-> NotRun]
        ELSE IF found.wasMentioned
        THEN [shouldProcess |-> TRUE, wasMentioned |-> "true", reason |-> "absent",
              detect |-> found]
        ELSE IF ~RequireMention(groupJid)
        THEN [shouldProcess |-> TRUE, wasMentioned |-> "false", reason |-> "absent",
              detect |-> found]
        ELSE [shouldProcess |-> FALSE, wasMentioned |-> "false",
              reason |-> "mention-required", detect |-> found]

\* applyGroupGating(params): the result, "absent" for a field it leaves out,
\* and what detectMention returned if it was called
ApplyGroupGating(m, groupJid) ==
    IF AllowlistRejects(groupJid)
    THEN [shouldProcess |-> FALSE, wasMentioned |-> "absent",
          reason |-> "group-not-in-allowlist", detect |-> NotRun]
    ELSE IF ~RequireMention(groupJid)
    THEN [shouldProcess |-> TRUE, wasMentioned |-> "false", reason |-> "absent",
          detect |-> NotRun]
    ELSE LET found == DetectMention(m, MentionConfig)
         IN  IF ~found.wasMentioned
             THEN [shouldProcess |-> FALSE, wasMentioned |-> "false",
                   reason |-> "mention-required", detect |-> found]
             ELSE [shouldProcess |-> TRUE, wasMentioned |-> "true", reason |-> "absent",
                   detect |-> found]

NoMessage ==
    [body |-> <<>>, mentionedJids |-> [given |-> FALSE, jids |-> <<>>],
     replyToSenderJid |-> Undefined, replyToSenderE164 |-> Undefined]
NoDetect == [called |-> FALSE, msg |-> NoMessage, result |-> NotRun]
NoGate ==
    [called |-> FALSE, msg |-> NoMessage, groupJid |-> Undefined,
     result |-> [shouldProcess |-> FALSE, wasMentioned |-> "absent", reason |-> "absent",
                 detect |-> NotRun]]

\* the bot's identity and patterns, any of them known or not; no group config
MentionInit ==
    /\ groupsConfig = [present |-> FALSE, groups |-> <<>>]
    /\ mentionPatterns \in PatternLists
    /\ selfJid \in {Undefined, BotJidDevice}
    /\ selfLid \in {Undefined, BotLid}
    /\ selfE164 \in {Undefined, BotE164}
    /\ mentionRet = NoDetect
    /\ gateRet = NoGate

\* any group config, for a bot that knows its lid and may have a name pattern
GatingInit ==
    /\ groupsConfig \in GroupsConfigs
    /\ mentionPatterns \in {<<>>, <<BotPattern>>}
    /\ selfJid \in {Undefined, BotJidDevice}
    /\ selfLid = BotLid
    /\ selfE164 = Undefined
    /\ mentionRet = NoDetect
    /\ gateRet = NoGate

\* the group messages put through the gate
GroupMessages ==
    {m \in Messages : m.replyToSenderE164 = Undefined /\ m.replyToSenderJid # OtherJid
                        /\ m.body # BodyHasNumber}

\* a call of detectMention
Detect(m) ==
    /\ mentionRet' = [called |-> TRUE, msg |-> m, result |-> DetectMention(m, MentionConfig)]
    /\ UNCHANGED <<dedupeVars, debounceVars, credsVars, outboundVars, metaVars, utilVars, groupsConfig,
                   mentionPatterns, selfJid, selfLid, selfE164, gateRet>>

\* a call of applyGroupGating for a message of a group
Gate(m, groupJid) ==
    /\ gateRet' = [called |-> TRUE, msg |-> m, groupJid |-> groupJid,
                   result |-> ApplyGroupGating(m, groupJid)]
    /\ UNCHANGED <<dedupeVars, debounceVars, credsVars, outboundVars, metaVars, utilVars, groupsConfig,
                   mentionPatterns, selfJid, selfLid, selfE164, mentionRet>>

MentionNext == \E m \in Messages : Detect(m)

GatingNext == \E m \in GroupMessages, groupJid \in GroupJids : Gate(m, groupJid)

(***************************************************************************)
(* Group metadata cache: createGroupMetaCache                              *)
(***************************************************************************)
\* const TTL_MS = 5 * 60 * 1000
MetaTtlMs == 300000
MaxMetaTicks == 3
MaxMetaCalls == 2
NoGet == [called |-> FALSE, jid |-> Undefined, calledAt |-> 0, prev |-> None, fetched |-> FALSE]

\* const cached = cache.get(jid); cached && cached.expires > Date.now()
MetaIsFresh(jid) == metaCache[jid] # None /\ metaCache[jid] > metaNow

\* createGroupMetaCache(): an empty Map
MetaInit ==
    /\ metaCache = [j \in GroupJids |-> None]
    /\ metaPending = [j \in GroupJids |-> 0]
    /\ metaDone = [j \in GroupJids |-> None]
    /\ metaNow = 0
    /\ metaRet = NoGet

\* get(jid, fetch), up to its await or its return: a fresh entry is
\* returned, else fetch() is called
MetaGet(jid) ==
    /\ MetaIsFresh(jid) \/ metaPending[jid] < MaxMetaCalls
    /\ metaRet' = [called |-> TRUE, jid |-> jid, calledAt |-> metaNow, prev |-> metaDone[jid],
                   fetched |-> ~MetaIsFresh(jid)]
    /\ IF MetaIsFresh(jid)
       THEN /\ metaDone' = [metaDone EXCEPT ![jid] = metaNow]
            /\ UNCHANGED metaPending
       ELSE /\ metaPending' = [metaPending EXCEPT ![jid] = @ + 1]
            /\ UNCHANGED metaDone
    /\ UNCHANGED <<dedupeVars, debounceVars, credsVars, outboundVars, gatingVars, utilVars,
                   metaCache, metaNow>>

\* the fetch() of a get settles: a metadata object makes an entry that is
\* put in the Map and returned; a rejection, or a value without the
\* properties read, is caught and an entry is returned that is not put in
\* the Map
MetaFetchSettles(jid, ok) ==
    /\ metaPending[jid] > 0
    /\ metaPending' = [metaPending EXCEPT ![jid] = @ - 1]
    /\ metaCache' = IF ok THEN [metaCache EXCEPT ![jid] = metaNow + MetaTtlMs] ELSE metaCache
    /\ metaDone' = [metaDone EXCEPT ![jid] = metaNow]
    /\ UNCHANGED <<dedupeVars, debounceVars, credsVars, outboundVars, gatingVars, utilVars,
                   metaNow, metaRet>>

\* clear(): cache.clear(); the history of the calls starts afresh
MetaClear ==
    /\ metaCache # [j \in GroupJids |-> None]
    /\ metaCache' = [j \in GroupJids |-> None]
    /\ metaDone' = [j \in GroupJids |-> None]
    /\ metaRet' = NoGet
    /\ UNCHANGED <<dedupeVars, debounceVars, credsVars, outboundVars, gatingVars, utilVars,
                   metaPending, metaNow>>

\* time passes, by half the life of an entry
MetaTick ==
    /\ metaNow < MaxMetaTicks * (MetaTtlMs \div 2)
    /\ metaNow' = metaNow + (MetaTtlMs \div 2)
    /\ UNCHANGED <<dedupeVars, debounceVars, credsVars, outboundVars, gatingVars, utilVars,
                   metaCache, metaPending, metaDone, metaRet>>

MetaNext ==
    \/ \E jid \in GroupJids : MetaGet(jid)
    \/ \E jid \in GroupJids, ok \in BOOLEAN : MetaFetchSettles(jid, ok)
    \/ MetaClear
    \/ MetaTick

(***************************************************************************)
(* Reconnect backoff: computeBackoff, createReconnectManager               *)
(***************************************************************************)
\* Numbers that need not be whole (factor, jitter, Math.random(), the
\* products of them) are fractions [num, den] with den > 0.
Rat(n, d) == [num |-> n, den |-> d]
RatTimes(a, b) == Rat(a.num * b.num, a.den * b.den)
RatPlus(a, b) == Rat(a.num * b.den + b.num * a.den, a.den * b.den)
RatLeq(a, b) == a.num * b.den <= b.num * a.den
RatEq(a, b) == a.num * b.den = b.num * a.den
Whole(n) == Rat(n, 1)

\* Math.pow(f, e) for a whole e >= 0
RECURSIVE MathPow(_, _)
MathPow(f, e) == IF e = 0 THEN Whole(1) ELSE RatTimes(f, MathPow(f, e - 1))

\* Math.round(x): the nearest whole number, halves upwards
MathRound(x) == (2 * x.num + x.den) \div (2 * x.den)
MathMax(a, b) == IF a >= b THEN a ELSE b
MathMin(a, b) == IF a <= b THEN a ELSE b

\* (mutant) computeBackoff without the cap
ComputeBackoffUncapped(p, attempt, random) ==
    LET exponent == MathMax(attempt - 1, 0)
        base == RatTimes(p.initialMs, MathPow(p.factor, exponent))
        jitterAmount == RatTimes(RatTimes(base, p.jitter), random)
    IN  MathRound(RatPlus(base, jitterAmount))

\* (mutant) computeBackoff with the distance of the attempt from 1 as exponent
ComputeBackoffDistance(p, attempt, random) ==
    LET exponent == MathMax(attempt - 1, 1 - attempt)
        base == RatTimes(p.initialMs, MathPow(p.factor, exponent))
        jitterAmount == RatTimes(RatTimes(base, p.jitter), random)
    IN  MathMin(p.maxMs, MathRound(RatPlus(base, jitterAmount)))

\* computeBackoff(policy, attempt), random being what Math.random() returns
ComputeBackoff(p, attempt, random) ==
    LET exponent == MathMax(attempt - 1, 0)
        base == RatTimes(p.initialMs, MathPow(p.factor, exponent))
        jitterAmount == RatTimes(RatTimes(base, p.jitter), random)
    IN  MathMin(p.maxMs, MathRound(RatPlus(base, jitterAmount)))

MaxAttempt == 3
MaxMaxAttempts == 3
MaxCalls == 5
InitialMsOptions == {Whole(1), Rat(3, 2), Whole(5)}
MaxMsOptions == {4, 30}
\* 9/5 is the factor of DEFAULT_RECONNECT_POLICY, 1/4 its jitter
Factors == {Rat(1, 2), Whole(1), Rat(9, 5), Whole(2)}
Jitters == {Whole(0), Rat(1, 4)}
\* Math.random() is in [0, 1)
Randoms == {Whole(0), Rat(1, 2), Rat(9, 10)}
AttemptNumbers == (-1)..MaxAttempt
BackoffPolicies ==
    [initialMs : InitialMsOptions, maxMs : MaxMsOptions, factor : Factors, jitter : Jitters]
ReconnectPolicies ==
    [initialMs : {Whole(1)}, maxMs : {4}, factor : {Rat(9, 5), Whole(2)},
     jitter : {Rat(1, 4)}, maxAttempts : 0..MaxMaxAttempts]

NoBackoff == [called |-> FALSE, attempt |-> 0, random |-> Whole(0), delay |-> 0]
NewManager == [op |-> "new", before |-> 0, value |-> 0, delays |-> 0]

BackoffInit ==
    /\ policy \in BackoffPolicies
    /\ attempts = 0 /\ nInc = 0 /\ mgrRet = NewManager
    /\ backoffRet = NoBackoff /\ backoffPrev = NoBackoff

\* a call of computeBackoff
ComputeBackoffCall(attempt, random) ==
    /\ backoffPrev' = backoffRet
    /\ backoffRet' = [called |-> TRUE, attempt |-> attempt, random |-> random,
                      delay |-> ComputeBackoff(policy, attempt, random)]
    /\ UNCHANGED <<dedupeVars, debounceVars, credsVars, outboundVars, gatingVars, metaVars, sleepVars, loopVars,
                   policy, attempts, nInc, mgrRet>>

BackoffNext == \E attempt \in AttemptNumbers, random \in Randoms : ComputeBackoffCall(attempt, random)

\* createReconnectManager(policy): let attempts = 0
ReconnectInit ==
    /\ policy \in ReconnectPolicies
    /\ attempts = 0 /\ nInc = 0 /\ mgrRet = NewManager
    /\ backoffRet = NoBackoff /\ backoffPrev = NoBackoff

\* getAttempts: () => attempts
GetAttempts == attempts

\* (mutant) isExhausted that needs one attempt more
IsExhaustedLate == attempts > policy.maxAttempts

\* isExhausted: () => attempts >= policy.maxAttempts
IsExhausted == attempts >= policy.maxAttempts

\* increment: () => ++attempts
Increment ==
    /\ attempts < MaxCalls
    /\ attempts' = attempts + 1
    /\ nInc' = nInc + 1
    /\ mgrRet' = [op |-> "increment", before |-> attempts, value |-> attempts + 1,
                  delays |-> mgrRet.delays]
    /\ UNCHANGED <<dedupeVars, debounceVars, credsVars, outboundVars, gatingVars, metaVars, sleepVars, loopVars,
                   policy, backoffRet, backoffPrev>>

\* reset: () => { attempts = 0 }
Reset ==
    /\ attempts' = 0
    /\ nInc' = 0
    /\ mgrRet' = [op |-> "reset", before |-> attempts, value |-> 0, delays |-> 0]
    /\ UNCHANGED <<dedupeVars, debounceVars, credsVars, outboundVars, gatingVars, metaVars, sleepVars, loopVars,
                   policy, backoffRet, backoffPrev>>

\* (mutant) nextDelay that computes the delay before it counts the attempt
NextDelayComputesFirst(random) ==
    /\ attempts < MaxCalls
    /\ attempts' = attempts + 1
    /\ nInc' = nInc + 1
    /\ mgrRet' = [op |-> "nextDelay", before |-> attempts,
                  value |-> ComputeBackoff(policy, attempts, random),
                  delays |-> mgrRet.delays + 1]
    /\ UNCHANGED <<dedupeVars, debounceVars, credsVars, outboundVars, gatingVars, metaVars, sleepVars, loopVars,
                   policy, backoffRet, backoffPrev>>

\* nextDelay: () => { attempts++; return computeBackoff(policy, attempts) }
NextDelay(random) ==
    /\ attempts < MaxCalls
    /\ attempts' = attempts + 1
    /\ nInc' = nInc + 1
    /\ mgrRet' = [op |-> "nextDelay", before |-> attempts,
                  value |-> ComputeBackoff(policy, attempts + 1, random),
                  delays |-> mgrRet.delays + 1]
    /\ UNCHANGED <<dedupeVars, debounceVars, credsVars, outboundVars, gatingVars, metaVars, sleepVars, loopVars,
                   policy, backoffRet, backoffPrev>>

ReconnectNext ==
    \/ Increment
    \/ Reset
    \/ \E random \in Randoms : NextDelay(random)

(***************************************************************************)
(* Interruptible sleep: sleepWithAbort                                     *)
(***************************************************************************)
MaxSleepMs == 2
MaxSleepNow == 3
NoSignal == [given |-> FALSE, aborted |-> FALSE]
Signals == {NoSignal, [given |-> TRUE, aborted |-> FALSE], [given |-> TRUE, aborted |-> TRUE]}
NoTimeout == [state |-> "none", due |-> 0]

\* resolve() and reject() of a promise: the first call settles it, the later
\* ones change nothing
Settle(p, outcome) == IF p = "pending" THEN outcome ELSE p

SleepInit ==
    /\ sleepMs \in 0..MaxSleepMs
    /\ signal \in Signals
    /\ promise = "none" /\ timeout = NoTimeout /\ listener = FALSE
    /\ sleepNow = 0 /\ settles = <<>>

\* sleepWithAbort(ms, signal): the executor of the promise
SleepWithAbort ==
    /\ promise = "none"
    /\ IF signal.given /\ signal.aborted
       THEN /\ promise' = Settle("pending", "rejected")
            /\ settles' = Append(settles, [outcome |-> "rejected", at |-> sleepNow])
            /\ UNCHANGED <<timeout, listener>>
       ELSE /\ promise' = "pending"
            /\ timeout' = [state |-> "armed", due |-> sleepNow + sleepMs]
            /\ listener' = signal.given
            /\ UNCHANGED settles
    /\ UNCHANGED <<dedupeVars, debounceVars, credsVars, outboundVars, gatingVars, metaVars, backoffVars, loopVars,
                   sleepMs, signal, sleepNow>>

\* clearTimeout(timeout): a timer that is armed no longer fires
ClearTimeout(t) == IF t.state = "armed" THEN [t EXCEPT !.state = "cleared"] ELSE t

\* (mutant) onAbort that leaves the timer running
OnAbortKeepsTimer ==
    /\ timeout' = timeout
    /\ promise' = Settle(promise, "rejected")
    /\ settles' = Append(settles, [outcome |-> "rejected", at |-> sleepNow])

\* onAbort: clearTimeout(timeout); reject(new Error('Aborted'))
OnAbort ==
    /\ timeout' = ClearTimeout(timeout)
    /\ promise' = Settle(promise, "rejected")
    /\ settles' = Append(settles, [outcome |-> "rejected", at |-> sleepNow])

\* the timer fires: resolve()
TimeoutFires ==
    /\ timeout.state = "armed" /\ sleepNow >= timeout.due
    /\ timeout' = [timeout EXCEPT !.state = "fired"]
    /\ promise' = Settle(promise, "resolved")
    /\ settles' = Append(settles, [outcome |-> "resolved", at |-> sleepNow])
    /\ UNCHANGED <<dedupeVars, debounceVars, credsVars, outboundVars, gatingVars, metaVars, backoffVars, loopVars,
                   sleepMs, signal, listener, sleepNow>>

\* the owner of the signal aborts it: the listeners run, once
Abort ==
    /\ signal.given /\ ~signal.aborted
    /\ signal' = [signal EXCEPT !.aborted = TRUE]
    /\ IF listener THEN OnAbort ELSE UNCHANGED <<timeout, promise, settles>>
    /\ listener' = FALSE
    /\ UNCHANGED <<dedupeVars, debounceVars, credsVars, outboundVars, gatingVars, metaVars, backoffVars, loopVars,
                   sleepMs, sleepNow>>

\* time passes, but not past a timer that is due
SleepTick ==
    /\ sleepNow < MaxSleepNow
    /\ ~(timeout.state = "armed" /\ sleepNow >= timeout.due)
    /\ sleepNow' = sleepNow + 1
    /\ UNCHANGED <<dedupeVars, debounceVars, credsVars, outboundVars, gatingVars, metaVars, backoffVars, loopVars,
                   sleepMs, signal, promise, timeout, listener, settles>>

SleepNext ==
    \/ SleepWithAbort
    \/ TimeoutFires
    \/ Abort
    \/ SleepTick

(***************************************************************************)
(* The reconnect loop: the example of createReconnectManager               *)
(***************************************************************************)
MaxLoops == 2

\* const reconnect = createReconnectManager(policy), then the loop is entered
LoopInit ==
    /\ ReconnectInit
    /\ loopPc = "check" /\ failsInRow = 0 /\ nLoops = 1

\* (mutant) a loop that never looks at isExhausted(): while (true)
LoopGoesOnAlways == TRUE

\* the loop's condition: while (!reconnect.isExhausted())
LoopGoesOn == ~IsExhausted

\* the condition is evaluated; connect() is called if it holds, else the
\* loop is left
LoopCheck ==
    /\ loopPc = "check"
    /\ loopPc' = IF LoopGoesOn THEN "connecting" ELSE "exhausted"
    /\ UNCHANGED <<dedupeVars, debounceVars, credsVars, outboundVars, gatingVars, metaVars, sleepVars,
                   backoffVars, failsInRow, nLoops>>

\* await connect() resolves: reconnect.reset(); break
ConnectSucceeds ==
    /\ loopPc = "connecting"
    /\ attempts' = 0
    /\ nInc' = 0
    /\ mgrRet' = [op |-> "reset", before |-> attempts, value |-> 0, delays |-> 0]
    /\ loopPc' = "connected"
    /\ failsInRow' = 0
    /\ UNCHANGED <<dedupeVars, debounceVars, credsVars, outboundVars, gatingVars, metaVars, sleepVars,
                   policy, backoffRet, backoffPrev, nLoops>>

\* await connect() throws: const delay = reconnect.nextDelay();
\* sleepWithAbort(delay, signal) is called and awaited
ConnectFails(random) ==
    /\ loopPc = "connecting"
    /\ attempts' = attempts + 1
    /\ nInc' = nInc + 1
    /\ mgrRet' = [op |-> "nextDelay", before |-> attempts,
                  value |-> ComputeBackoff(policy, attempts + 1, random),
                  delays |-> mgrRet.delays + 1]
    /\ loopPc' = "sleeping"
    /\ failsInRow' = failsInRow + 1
    /\ UNCHANGED <<dedupeVars, debounceVars, credsVars, outboundVars, gatingVars, metaVars, sleepVars,
                   policy, backoffRet, backoffPrev, nLoops>>

\* the sleep resolves: the loop goes round
LoopSleepResolves ==
    /\ loopPc = "sleeping"
    /\ loopPc' = "check"
    /\ UNCHANGED <<dedupeVars, debounceVars, credsVars, outboundVars, gatingVars, metaVars, sleepVars,
                   backoffVars, failsInRow, nLoops>>

\* the signal is aborted during the sleep: the rejection leaves the catch
\* block and the loop with it
LoopSleepAborted ==
    /\ loopPc = "sleeping"
    /\ loopPc' = "aborted"
    /\ UNCHANGED <<dedupeVars, debounceVars, credsVars, outboundVars, gatingVars, metaVars, sleepVars,
                   backoffVars, failsInRow, nLoops>>

\* the connection is lost again: the loop is entered anew, on the same manager
Disconnect ==
    /\ loopPc = "connected"
    /\ nLoops < MaxLoops
    /\ loopPc' = "check"
    /\ nLoops' = nLoops + 1
    /\ UNCHANGED <<dedupeVars, debounceVars, credsVars, outboundVars, gatingVars, metaVars, sleepVars,
                   backoffVars, failsInRow>>

LoopNext ==
    \/ LoopCheck
    \/ ConnectSucceeds
    \/ \E random \in Randoms : ConnectFails(random)
    \/ LoopSleepResolves
    \/ LoopSleepAborted
    \/ Disconnect

\* the loop's own steps are taken, connect() settles and the sleep settles
LoopFairness ==
    /\ WF_vars(LoopCheck)
    /\ WF_vars(ConnectSucceeds \/ \E random \in Randoms : ConnectFails(random))
    /\ WF_vars(LoopSleepResolves \/ LoopSleepAborted)

(***************************************************************************)
(* Specifications: one per component, the other components at rest         *)
(***************************************************************************)
DedupeIdle ==
    /\ cache = <<>> /\ ttlMs = 1 /\ maxSize = 1 /\ lastNow = None /\ monotone = TRUE
    /\ lastCheck = [k \in DedupeKeys |-> None]
    /\ capEvicted = [k \in DedupeKeys |-> FALSE]
    /\ ret = NoCall

DebounceIdle ==
    /\ optDebounce = 2 /\ buffers = <<>> /\ nEnq = 0 /\ running = {} /\ forced = {}
    /\ lastThrow = NoThrow
    /\ sinceLast = [k \in DebounceKeys |-> LongAgo]
    /\ chain = [k \in DebounceKeys |-> 0]
    /\ handed = [i \in 1..MaxItems |-> 0]
    /\ maxHanded = [k \in DebounceKeys |-> 0]

CredsIdle ==
    /\ mainFile = Missing /\ backupFile = Missing /\ proc = "down" /\ ops = <<>>
    /\ flushes = {} /\ nSaves = 0 /\ lastValid = Missing /\ savedValid = FALSE
    /\ tornAtCrash = FALSE /\ restoreRet = NoRestore

OutboundIdle ==
    /\ selfChatLid = EmptyString /\ myNumber = EmptyString /\ lidToJid = <<>>
    /\ lidMapping = Absent /\ hasStore = FALSE /\ sentMessageIds = {} /\ messageStore = {}
    /\ outTimers = {} /\ outNow = 0 /\ nSends = 0 /\ resolveRet = NoResolve
    /\ sendRet = NoSend

\* the components that follow the credential save queue, not in use
GatingIdle ==
    /\ groupsConfig = [present |-> FALSE, groups |-> <<>>] /\ mentionPatterns = <<>>
    /\ selfJid = Undefined /\ selfLid = Undefined /\ selfE164 = Undefined
    /\ mentionRet = NoDetect /\ gateRet = NoGate

BackoffIdle ==
    /\ policy = [initialMs |-> Whole(1), maxMs |-> 4, factor |-> Whole(2), jitter |-> Whole(0)]
    /\ attempts = 0 /\ nInc = 0 /\ mgrRet = NewManager
    /\ backoffRet = NoBackoff /\ backoffPrev = NoBackoff

SleepIdle ==
    /\ sleepMs = 0 /\ signal = NoSignal /\ promise = "none" /\ timeout = NoTimeout
    /\ listener = FALSE /\ sleepNow = 0 /\ settles = <<>>

LoopIdle == loopPc = "connected" /\ failsInRow = 0 /\ nLoops = 0

MetaIdle ==
    /\ metaCache = [j \in GroupJids |-> None] /\ metaPending = [j \in GroupJids |-> 0]
    /\ metaDone = [j \in GroupJids |-> None] /\ metaNow = 0 /\ metaRet = NoGet

UtilIdle == BackoffIdle /\ SleepIdle /\ LoopIdle

RestIdle == OutboundIdle /\ GatingIdle /\ MetaIdle /\ UtilIdle

InitDedupe == DedupeInit /\ DebounceIdle /\ CredsIdle /\ RestIdle
SpecDedupe == InitDedupe /\ [][DedupeNext]_vars
SpecDedupeLoad == InitDedupe /\ [][LoadNext]_vars

InitDebounce == DebounceInit /\ DedupeIdle /\ CredsIdle /\ RestIdle
SpecDebounce == InitDebounce /\ [][DebounceNext]_vars

InitCreds == CredsInit /\ DedupeIdle /\ DebounceIdle /\ RestIdle
SpecCreds == InitCreds /\ [][CredsNext]_vars

InitOutbound ==
    OutboundInit /\ DedupeIdle /\ DebounceIdle /\ CredsIdle /\ GatingIdle /\ MetaIdle
        /\ UtilIdle
SpecOutbound == InitOutbound /\ [][OutboundNext]_vars

InitMention ==
    MentionInit /\ DedupeIdle /\ DebounceIdle /\ CredsIdle /\ OutboundIdle /\ MetaIdle
        /\ UtilIdle
SpecMention == InitMention /\ [][MentionNext]_vars

InitGating ==
    GatingInit /\ DedupeIdle /\ DebounceIdle /\ CredsIdle /\ OutboundIdle /\ MetaIdle
        /\ UtilIdle
SpecGating == InitGating /\ [][GatingNext]_vars

InitBackoff ==
    BackoffInit /\ DedupeIdle /\ DebounceIdle /\ CredsIdle /\ OutboundIdle /\ GatingIdle
        /\ SleepIdle /\ LoopIdle /\ MetaIdle
SpecBackoff == InitBackoff /\ [][BackoffNext]_vars

InitReconnect ==
    ReconnectInit /\ DedupeIdle /\ DebounceIdle /\ CredsIdle /\ OutboundIdle /\ GatingIdle
        /\ SleepIdle /\ LoopIdle /\ MetaIdle
SpecReconnect == InitReconnect /\ [][ReconnectNext]_vars

InitSleep ==
    SleepInit /\ DedupeIdle /\ DebounceIdle /\ CredsIdle /\ OutboundIdle /\ GatingIdle
        /\ BackoffIdle /\ LoopIdle /\ MetaIdle
SpecSleep == InitSleep /\ [][SleepNext]_vars

InitLoop ==
    LoopInit /\ DedupeIdle /\ DebounceIdle /\ CredsIdle /\ OutboundIdle /\ GatingIdle
        /\ SleepIdle /\ MetaIdle
SpecLoop == InitLoop /\ [][LoopNext]_vars /\ LoopFairness

InitMeta ==
    MetaInit /\ DedupeIdle /\ DebounceIdle /\ CredsIdle /\ OutboundIdle /\ GatingIdle
        /\ UtilIdle
SpecGroupMeta == InitMeta /\ [][MetaNext]_vars

\* The event loop runs every promise reaction that is due: a link whose turn
\* has come starts, and an await on a settled promise resumes. That a save
\* settles once started is the caller's saveCreds keeping its promise.
CredsFairness ==
    /\ \A i \in 1..MaxSaves : WF_vars(OpStart(i))
    /\ \A i \in 1..MaxSaves :
           WF_vars(SaveFails(i) \/ \E v \in 1..MaxSaves : SaveCompletes(i, ValidCreds(v)))
    /\ \A upto \in 0..MaxSaves : WF_vars(FlushSettles(upto))
SpecCredsLive == InitCreds /\ [][CredsNext]_vars /\ CredsFairness
SpecCredsFaulty == InitCreds /\ [][CredsFaultyNext]_vars

(***************************************************************************)
(* Claims about the deduplication cache                                    *)
(***************************************************************************)
\* the latest call was check(k, now) with a non-empty key, and no call so far
\* had a timestamp below the one before it
AfterMonotoneCheck == ret.key # NullKey /\ monotone

\* the latest check(k) came less than ttlMs after the most recent check(k)
WithinTtlOfLastCheck == ret.prev # None /\ ret.now - ret.prev < ttlMs

\* C1 (as stated): with non-decreasing timestamps, check(k) returns true
\* exactly when an earlier check(k) exists and the most recent one was less
\* than ttlMs ago: the first check(k) returns false, one at least ttlMs after
\* the most recent check(k) returns false again, whatever other keys were
\* checked in between (stated here for a cache that can hold an entry at all).
C1_TtlWindowWhateverElseIsChecked ==
    (AfterMonotoneCheck /\ maxSize >= 1) => (ret.result <=> WithinTtlOfLastCheck)

\* C1 (amended): the same, except that a check(k) within ttlMs of the most
\* recent check(k) returns false when the size cap evicted k in between.
C1_TtlWindowUnlessCapEvicted ==
    AfterMonotoneCheck => (ret.result <=> (WithinTtlOfLastCheck /\ ~ret.evicted))

\* C1 witness: a duplicate is reported for a key while another key is cached
\* too, and some key has been checked again after its TTL ran out.
C1_Witness ==
    /\ AfterMonotoneCheck /\ ret.result /\ WithinTtlOfLastCheck
    /\ CacheSize(cache) >= 2
    /\ \E k \in DedupeKeys \ {ret.key} : lastCheck[k] # None /\ ret.now - lastCheck[k] >= ttlMs

\* C2: after every check call, with any keys and timestamps, the cache holds
\* at most maxSize entries.
C2_SizeAtMostMaxSize == CacheSize(cache) <= maxSize

\* C2 witness: the cap has evicted a key and the cache is full, after calls
\* whose timestamps went backwards.
C2_Witness ==
    /\ \E k \in DedupeKeys : capEvicted[k]
    /\ maxSize >= 1 /\ CacheSize(cache) = maxSize
    /\ ~monotone

(***************************************************************************)
(* Claims about the debouncer                                              *)
(***************************************************************************)
\* the onFlush invocations a step makes
NewCalls == running' \ running

\* A pending buffer holds the debounced items enqueued for its key since the
\* latest flush, each later one next to the one enqueued before it; its first
\* item does not follow, within the window and with nothing in between, an
\* item that is not in the buffer; and its timer is due debounceMs after the
\* latest of them.
BufferIsOneBurst(b) ==
    /\ Len(b.items) >= 1
    /\ ~b.items[1].linked
    /\ \A j \in 2..Len(b.items) : b.items[j].prev = b.items[j - 1].id /\ b.items[j].near
    /\ chain[b.key] = b.items[Len(b.items)].id
    /\ b.timer = DebounceMs - sinceLast[b.key]

\* A flush by timer hands onFlush the whole pending buffer of the key, in its
\* order, debounceMs after the key's latest item, each item for the first time.
TimerFlushesWholeBuffer ==
    \A r \in NewCalls :
        r.cause = "timer" =>
            /\ BufferHas(r.key) /\ r.items = Ids(BufferGet(r.key).items)
            /\ sinceLast[r.key] = DebounceMs
            /\ \A j \in DOMAIN r.items : handed[r.items[j]] = 0 /\ handed'[r.items[j]] = 1

\* C3: debounced items of one key enqueued less than debounceMs apart, with
\* no flushKey, flushAll or bypassing item in between, stay together in one
\* buffer in enqueue order, and the timer hands that buffer to onFlush once,
\* whole, debounceMs after the last item; an item enqueued more than
\* debounceMs after the one before it starts a batch of its own.
C3_OneFlushPerBurst ==
    /\ [](\A i \in DOMAIN buffers : BufferIsOneBurst(buffers[i]))
    /\ [][TimerFlushesWholeBuffer]_vars

\* C3 witness: the timer has flushed a batch of two items, and a later item
\* of the same key waits in a buffer of its own.
C3_Witness ==
    \E r \in running :
        /\ r.cause = "timer" /\ Len(r.items) = 2
        /\ BufferHas(r.key) /\ Len(BufferGet(r.key).items) = 1

\* C4: for any one key, the items are handed to onFlush in the order they
\* were enqueued: every invocation hands items in enqueue order, all of them
\* enqueued after every item of the key handed before.
C4_HandedInEnqueueOrder ==
    [][\A r \in NewCalls :
          r.key # NullKey =>
              /\ \A j \in DOMAIN r.items : r.items[j] > maxHanded[r.key]
              /\ \A j \in 2..Len(r.items) : r.items[j] > r.items[j - 1]]_vars

\* C5: a handler failure is passed to onError and rejects no promise that
\* enqueue returned, also for the single-item flush of a bypassing item.
C5_HandlerFailureIsolated ==
    lastThrow.promise # "" => (lastThrow.onError /\ lastThrow.promise # "rejected")


(***************************************************************************)
(* Claims about the credential save queue                                  *)
(***************************************************************************)
Started(i) == ops[i].state \in {"running", "ok", "failed"}
Settled(i) == ops[i].state \in {"ok", "failed", "skipped"}
IsValid(file) == file.kind = "valid"

\* C6: at most one queued operation (backup step plus saveCreds call) is
\* executing at any time, and an operation has started only if every
\* operation enqueued before it has settled, resolved or rejected: the
\* operations run one at a time in enqueue order.
C6_OneAtATimeInFifoOrder ==
    /\ Cardinality({i \in DOMAIN ops : ops[i].state = "running"}) <= 1
    /\ \A i \in DOMAIN ops : Started(i) => \A j \in 1..(i - 1) : Settled(j)

\* the third operation runs after the first failed and the second succeeded
C6_Witness ==
    /\ Len(ops) = 3
    /\ ops[1].state = "failed" /\ ops[2].state = "ok" /\ ops[3].state = "running"

FailedBefore(f) == \E i \in 1..f.upto : ops[i].state = "failed"

C11_QueuedIsEventuallyRun ==
    /\ \A i \in 1..MaxSaves :
           (i \in DOMAIN ops /\ ops[i].state = "queued")
               ~> (proc = "down" \/ (i \in DOMAIN ops /\ Started(i)))
    /\ [](\A i \in DOMAIN ops : ops[i].state # "skipped")

\* the second operation completed after the first one failed
C11_Witness ==
    /\ Len(ops) >= 2
    /\ ops[1].state = "failed" /\ ops[2].state = "ok"

AllSettledUpTo(upto) == \A i \in 1..upto : i \in DOMAIN ops /\ Settled(i)

\* C12: the promise of a flush() call resolves only after every operation
\* enqueued before the call has settled, and it does resolve once they all
\* have; flush() itself starts no operation, so with nothing enqueued it
\* resolves without anything having run.
C12_FlushResolvesWhenAllSettled ==
    /\ [](\A f \in flushes : f.status = "resolved" => AllSettledUpTo(f.upto))
    /\ \A upto \in 0..MaxSaves :
           ([upto |-> upto, status |-> "pending"] \in flushes /\ AllSettledUpTo(upto))
               ~> (proc = "down" \/ [upto |-> upto, status |-> "resolved"] \in flushes)
    /\ [][(proc = "up" /\ proc' = "up" /\ flushes' # flushes) => ops' = ops]_vars

\* a flush() called after two enqueues has resolved, a third operation
\* having been enqueued since
C12_Witness ==
    \E f \in flushes : f.status = "resolved" /\ f.upto = 2 /\ Len(ops) = 3


(***************************************************************************)
(* Claims about the identity resolver                                      *)
(***************************************************************************)
Resolved == resolveRet.outcome # ""
ReturnedJid(jid) == resolveRet.outcome = "returned" /\ resolveRet.jid = jid
HasEntry(entry) == entry # Undefined

\* C13, as stated: a non-linked identifier is returned unchanged, no mapping
\* consulted; a linked one resolves to the bot's own address if it equals
\* the self-chat identifier, else to the native mapping's entry if present,
\* else to the manual mapping's entry if present, else to an error.
C13_DecisionTable ==
    Resolved =>
        LET chatId == resolveRet.chatId
            native == SignalMapping(chatId)
            manual == ManualMapping(chatId)
        IN  /\ ~IsLid(chatId) => (ReturnedJid(chatId) /\ resolveRet.looked = {})
            /\ (IsLid(chatId) /\ chatId = selfChatLid) => ReturnedJid(OwnJid)
            /\ (IsLid(chatId) /\ chatId # selfChatLid /\ HasEntry(native))
                   => ReturnedJid(native)
            /\ (IsLid(chatId) /\ chatId # selfChatLid /\ ~HasEntry(native) /\ HasEntry(manual))
                   => ReturnedJid(manual)
            /\ (IsLid(chatId) /\ chatId # selfChatLid /\ ~HasEntry(native) /\ ~HasEntry(manual))
                   => resolveRet.outcome = "threw"

IsSelfChat(chatId) == chatId = selfChatLid /\ myNumber # EmptyString
HasAddress(entry) == entry # Undefined /\ entry # EmptyString

\* C13, amended: a non-linked identifier is returned unchanged, no mapping
\* consulted; a linked one resolves to the bot's own address if it equals
\* the self-chat identifier and the bot's number is known (not empty), else
\* to the native mapping's entry if that is a non-empty address, else to the
\* manual mapping's entry if that is a non-empty address, else to an error.
\* With both mappings holding an address, the native one is returned.
C13_DecisionTableKnownNumber ==
    Resolved =>
        LET chatId == resolveRet.chatId
            native == SignalMapping(chatId)
            manual == ManualMapping(chatId)
        IN  /\ ~IsLid(chatId) => (ReturnedJid(chatId) /\ resolveRet.looked = {})
            /\ (IsLid(chatId) /\ IsSelfChat(chatId)) => ReturnedJid(OwnJid)
            /\ (IsLid(chatId) /\ ~IsSelfChat(chatId) /\ HasAddress(native))
                   => ReturnedJid(native)
            /\ (IsLid(chatId) /\ ~IsSelfChat(chatId) /\ ~HasAddress(native)
                    /\ HasAddress(manual))
                   => ReturnedJid(manual)
            /\ (IsLid(chatId) /\ ~IsSelfChat(chatId) /\ ~HasAddress(native)
                    /\ ~HasAddress(manual))
                   => resolveRet.outcome = "threw"

\* the self-chat identifier, the bot's number unknown, both mappings holding
\* an address for it: the native one is returned
C13_Witness ==
    /\ resolveRet.chatId = LidA /\ selfChatLid = LidA /\ myNumber = EmptyString
    /\ SignalMapping(LidA) = PnNative /\ ManualMapping(LidA) = PnManual
    /\ ReturnedJid(PnNative)

Unmapped(chatId) ==
    /\ IsLid(chatId) /\ chatId # selfChatLid
    /\ SignalMapping(chatId) = Undefined /\ ManualMapping(chatId) = Undefined

\* C14: for a linked identifier that is not the self-chat identifier and has
\* no entry in either mapping, resolveSendJid throws and returns no address,
\* and the send functions fail without a call on the socket. An address that
\* resolveSendJid returns is the input itself, then not a linked identifier,
\* or the bot's own address, or what one of the two mappings holds for the
\* identifier.
C14_FailSafeSend ==
    /\ (Resolved /\ Unmapped(resolveRet.chatId))
           => (resolveRet.outcome = "threw" /\ resolveRet.jid = Undefined)
    /\ (sendRet.outcome # "" /\ Resolved /\ Unmapped(sendRet.chatId))
           => (sendRet.outcome = "threw" /\ sendRet.calls = <<>>)
    /\ resolveRet.outcome = "returned" =>
           \/ resolveRet.jid = resolveRet.chatId /\ ~IsLid(resolveRet.chatId)
           \/ resolveRet.jid = OwnJid
           \/ HasEntry(SignalMapping(resolveRet.chatId))
                  /\ resolveRet.jid = SignalMapping(resolveRet.chatId)
           \/ HasEntry(ManualMapping(resolveRet.chatId))
                  /\ resolveRet.jid = ManualMapping(resolveRet.chatId)

\* a message for a linked identifier nobody has mapped: the send failed and
\* the socket was not touched
C14_Witness ==
    /\ sendRet.fn = "sendWhatsAppMessage" /\ sendRet.chatId = LidA
    /\ Unmapped(LidA) /\ resolveRet.outcome = "threw"
    /\ sendRet.outcome = "threw" /\ sendRet.calls = <<>>

(***************************************************************************)
(* Claims about the group gate and the mention detector                    *)
(***************************************************************************)
\* the keys of the configured groups; none when the configuration is absent
ConfiguredGroups == IF groupsConfig.present THEN DOMAIN groupsConfig.groups ELSE {}

\* C15: when the groups configuration is not empty and has neither the
\* group of the message nor the wildcard, applyGroupGating returns
\* shouldProcess = false with the reason group-not-in-allowlist, whatever the
\* mentions, text and reply context of the message; when the configuration
\* is empty or absent no group gets that reason.
C15_Allowlist ==
    gateRet.called =>
        /\ (ConfiguredGroups # {} /\ gateRet.groupJid \notin ConfiguredGroups
                /\ Star \notin ConfiguredGroups)
               => (~gateRet.result.shouldProcess
                       /\ gateRet.result.reason = "group-not-in-allowlist")
        /\ ConfiguredGroups = {} => gateRet.result.reason # "group-not-in-allowlist"

\* only another group is configured; the message names the bot in its
\* mention list and in its text, and is dropped all the same
C15_Witness ==
    /\ gateRet.called /\ ConfiguredGroups = {GroupJid} /\ gateRet.groupJid = OtherGroupJid
    /\ gateRet.msg.mentionedJids.jids = <<BotLidDevice>> /\ gateRet.msg.body = BodyNamesBot
    /\ gateRet.result.reason = "group-not-in-allowlist"

\* an identifier without its ':N' device part
WithoutDevice(jid) == IF Len(jid) = 4 /\ jid[2] = ":" THEN <<jid[1], jid[4]>> ELSE jid

\* the bot's real address and linked identifier, as far as they are known
SelfAddresses == {WithoutDevice(id) : id \in {selfJid, selfLid} \ {Undefined}}

\* C16: with a non-empty native mention list, detectMention reports
\* wasMentioned = true, by method jid, exactly if some identifier of the list
\* is, device part aside, the bot's real address or linked identifier; if
\* none is, the result is wasMentioned = false without a method, whatever the
\* text, the patterns, the bot's number and the reply context.
C16_NativeListAuthoritative ==
    (mentionRet.called /\ mentionRet.msg.mentionedJids.given
         /\ mentionRet.msg.mentionedJids.jids # <<>>) =>
        LET jids == mentionRet.msg.mentionedJids.jids
            named == \E i \in DOMAIN jids : WithoutDevice(jids[i]) \in SelfAddresses
        IN  /\ mentionRet.result.wasMentioned <=> named
            /\ named => mentionRet.result = MentionResult(TRUE, FALSE, "jid")
            /\ ~named => mentionRet.result = MentionResult(FALSE, FALSE, "none")

\* the list names a third party, while the text matches a pattern and the
\* message replies to the bot: not mentioned
C16_Witness ==
    /\ mentionRet.called /\ mentionRet.msg.mentionedJids.jids = <<OtherJid>>
    /\ mentionRet.msg.body = BodyNamesBot /\ mentionPatterns = <<BotPattern>>
    /\ mentionRet.msg.replyToSenderJid = BotJidDevice /\ selfJid = BotJidDevice
    /\ ~mentionRet.result.wasMentioned

\* the group of the message passes the allowlist
PassesAllowlist(groupJid) ==
    ConfiguredGroups = {} \/ groupJid \in ConfiguredGroups \/ Star \in ConfiguredGroups

\* C17: for a group that passes the allowlist, applyGroupGating returns
\* shouldProcess = true exactly if the resolved requireMention is false or
\* detectMention reports a mention; with requireMention false the detection
\* is not run and the message is eligible; with requireMention true and no
\* mention the result is shouldProcess = false with reason mention-required.
\* A reason is present exactly when shouldProcess is false.
C17_GatingDecision ==
    gateRet.called =>
        LET r == gateRet.result
            required == RequireMention(gateRet.groupJid)
            mentioned == DetectMention(gateRet.msg, MentionConfig).wasMentioned
        IN  /\ PassesAllowlist(gateRet.groupJid) =>
                   /\ r.shouldProcess <=> (~required \/ mentioned)
                   /\ ~required => (r.detect = NotRun /\ r.shouldProcess)
                   /\ (required /\ ~mentioned)
                          => (~r.shouldProcess /\ r.reason = "mention-required")
            /\ (r.reason # "absent") <=> ~r.shouldProcess

\* the wildcard entry switches requireMention off for a group whose own
\* entry does not set it; a message that names the bot passes and the
\* detection was not run
C17_Witness ==
    /\ gateRet.called /\ gateRet.groupJid = GroupJid
    /\ groupsConfig.present /\ DOMAIN groupsConfig.groups = {GroupJid, Star}
    /\ groupsConfig.groups[GroupJid] = "unset" /\ groupsConfig.groups[Star] = "false"
    /\ gateRet.msg.mentionedJids.jids = <<BotLidDevice>>
    /\ gateRet.result.shouldProcess /\ gateRet.result.detect = NotRun

(***************************************************************************)
(* Claims about the reconnect backoff and the interruptible sleep          *)
(***************************************************************************)
\* two calls of computeBackoff with the same draw of Math.random(), the
\* later one for an attempt that is not smaller
SameDrawLaterAttempt ==
    /\ backoffPrev.called /\ backoffRet.called
    /\ backoffPrev.random = backoffRet.random
    /\ backoffPrev.attempt <= backoffRet.attempt

\* C18, as claimed: computeBackoff(policy, n) <= policy.maxMs for every
\* policy and attempt; computeBackoff(policy, 1) = policy.initialMs when
\* jitter = 0; computeBackoff(policy, n) is non-decreasing in n for every
\* jitter draw when the factor is >= 1.
C18_BackoffBounds ==
    backoffRet.called =>
        /\ backoffRet.delay <= policy.maxMs
        /\ (RatEq(policy.jitter, Whole(0)) /\ backoffRet.attempt = 1)
               => RatEq(Whole(backoffRet.delay), policy.initialMs)
        /\ (RatLeq(Whole(1), policy.factor) /\ SameDrawLaterAttempt)
               => backoffPrev.delay <= backoffRet.delay

\* initialMs is a whole number of milliseconds
IsWhole(x) == x.num % x.den = 0

\* C18, amended: computeBackoff(policy, n) <= policy.maxMs for every policy
\* and attempt; computeBackoff(policy, 1) = policy.initialMs when jitter = 0
\* and initialMs is a whole number not above maxMs; computeBackoff(policy, n)
\* is non-decreasing in n for every jitter draw when the factor is >= 1.
C18_BackoffBoundsWithinCap ==
    backoffRet.called =>
        /\ backoffRet.delay <= policy.maxMs
        /\ (RatEq(policy.jitter, Whole(0)) /\ backoffRet.attempt = 1
                /\ IsWhole(policy.initialMs) /\ RatLeq(policy.initialMs, Whole(policy.maxMs)))
               => RatEq(Whole(backoffRet.delay), policy.initialMs)
        /\ (RatLeq(Whole(1), policy.factor) /\ SameDrawLaterAttempt)
               => backoffPrev.delay <= backoffRet.delay

\* no jitter: the first attempt waits initialMs, the third one longer, and
\* still less than the cap
C18_Witness ==
    /\ RatEq(policy.jitter, Whole(0)) /\ policy.initialMs = Whole(1)
    /\ RatLeq(Whole(1), policy.factor) /\ SameDrawLaterAttempt
    /\ backoffPrev.attempt = 1 /\ backoffPrev.delay = 1
    /\ backoffRet.attempt = 3 /\ backoffRet.delay > 1 /\ backoffRet.delay < policy.maxMs

\* C19: a new manager has getAttempts() = 0; isExhausted() is true exactly
\* when maxAttempts or more increments were made since creation or the last
\* reset, so it is true after maxAttempts increments and stays true under
\* more of them; after reset() getAttempts() is 0 and isExhausted() is false
\* (for maxAttempts >= 1), whatever the state was.
C19_Exhaustion ==
    /\ GetAttempts = nInc
    /\ IsExhausted <=> (nInc >= policy.maxAttempts)
    /\ mgrRet.op = "new" => GetAttempts = 0
    /\ mgrRet.op = "reset" =>
           (GetAttempts = 0 /\ (policy.maxAttempts >= 1 => ~IsExhausted))

\* a manager that was exhausted, and past it, has been reset
C19_Witness ==
    /\ mgrRet.op = "reset" /\ policy.maxAttempts >= 1
    /\ mgrRet.before > policy.maxAttempts
    /\ GetAttempts = 0 /\ ~IsExhausted

\* C20: sleepWithAbort settles once. Called with a signal that is aborted
\* already, it rejects in the call and starts no timer; an abort during the
\* wait rejects it in that step and cancels the timer, so the timer never
\* fires and resolve is never called after it; the timer firing before any
\* abort resolves it, and a later abort changes nothing.
C20_SettlesOnce ==
    /\ [](/\ promise = "rejected" => timeout.state \in {"none", "cleared"}
          /\ settles # <<>> => promise = settles[1].outcome
          /\ \A i \in DOMAIN settles : settles[i].outcome = "resolved" => i = 1)
    /\ [][/\ (promise = "none" /\ promise' # "none" /\ signal.given /\ signal.aborted)
                 => (promise' = "rejected" /\ timeout' = NoTimeout /\ ~listener')
          /\ (promise = "pending" /\ ~signal.aborted /\ signal'.aborted)
                 => (promise' = "rejected" /\ timeout'.state = "cleared")
          /\ (timeout.state = "armed" /\ timeout'.state = "fired") => promise' = "resolved"
          /\ promise \in {"resolved", "rejected"} => promise' = promise]_vars

\* the signal was aborted before the ms were over: the wait was rejected
\* then, and the time went past the timer's due time with nothing more
C20_Witness ==
    /\ promise = "rejected" /\ timeout.state = "cleared"
    /\ Len(settles) = 1 /\ settles[1].at < timeout.due
    /\ sleepNow > timeout.due

(***************************************************************************)
(* Claims about the reconnect loop                                         *)
(***************************************************************************)
LoopEnded == loopPc \in {"connected", "exhausted", "aborted"}

\* C21: the loop that tests isExhausted() before each connect attempt, calls
\* nextDelay() after a failed one and reset() after a successful one makes
\* at most maxAttempts failed attempts in a row: connect is attempted only
\* with fewer than maxAttempts failures behind it, and once the loop runs it
\* ends; it ends as exhausted only with isExhausted() true and maxAttempts
\* failures in a row. After a successful connect the count is 0 again.
C21_BoundedRetry ==
    /\ [](/\ failsInRow <= policy.maxAttempts
          /\ failsInRow = nInc
          /\ loopPc = "connecting" => failsInRow < policy.maxAttempts
          /\ loopPc = "exhausted" => (IsExhausted /\ failsInRow = policy.maxAttempts)
          /\ loopPc = "connected" => (GetAttempts = 0 /\ failsInRow = 0))
    /\ (~LoopEnded ~> LoopEnded)

\* the second run of the loop, after a successful connect, used the whole
\* budget again and ended exhausted
C21_Witness ==
    /\ nLoops = 2 /\ loopPc = "exhausted"
    /\ policy.maxAttempts >= 2 /\ failsInRow = policy.maxAttempts

(***************************************************************************)
(* Claims about mention detection without a native mention list            *)
(***************************************************************************)
\* C22: with no native mention list, or an empty one, detectMention returns
\* method regex if some configured pattern that compiles matches the text
\* (trimmed, zero-width characters removed) without regard to case, a
\* pattern that does not compile being skipped; else e164 if the digits of
\* the text contain the digits of the bot's number; else reply, with
\* implicitMention, if the replied-to sender is the bot by real address or
\* linked identifier (device part aside) or by phone number; else
\* wasMentioned = false with no method. In every result the method is there
\* exactly when wasMentioned is true, and implicitMention is true exactly
\* when the method is reply.
C22_FallbackOrder ==
    mentionRet.called =>
        LET m == mentionRet.msg
            r == mentionRet.result
            text == NormalizeMentionText(m.body)
            byPattern ==
                \E i \in DOMAIN mentionPatterns :
                    /\ mentionPatterns[i] # InvalidPattern
                    /\ Includes(LowerCase(text), LowerCase(mentionPatterns[i]))
            byNumber ==
                selfE164 # Undefined /\ Includes(DigitsOf(text), DigitsOf(selfE164))
            byReply ==
                \/ m.replyToSenderJid # Undefined
                       /\ WithoutDevice(m.replyToSenderJid) \in SelfAddresses
                \/ selfE164 # Undefined /\ m.replyToSenderE164 = selfE164
        IN  /\ (~m.mentionedJids.given \/ m.mentionedJids.jids = <<>>) =>
                   r = IF byPattern THEN MentionResult(TRUE, FALSE, "regex")
                       ELSE IF byNumber THEN MentionResult(TRUE, FALSE, "e164")
                       ELSE IF byReply THEN MentionResult(TRUE, TRUE, "reply")
                       ELSE MentionResult(FALSE, FALSE, "none")
            /\ (r.method # "none") <=> r.wasMentioned
            /\ r.implicitMention <=> (r.method = "reply")

\* the first pattern does not compile, the second one matches the text of a
\* message that is also a reply to the bot: found by pattern, not implicit
C22_Witness ==
    /\ mentionRet.called /\ ~mentionRet.msg.mentionedJids.given
    /\ mentionPatterns = <<InvalidPattern, BotPattern>>
    /\ mentionRet.msg.body = BodyNamesBot
    /\ mentionRet.msg.replyToSenderJid = BotJidDevice /\ selfJid = BotJidDevice
    /\ mentionRet.result = MentionResult(TRUE, FALSE, "regex")

(***************************************************************************)
(* Further claims about the debouncer                                      *)
(***************************************************************************)
\* the items that wait in some buffer
Buffered == UNION {Range(Ids(buffers[i].items)) : i \in DOMAIN buffers}

\* the onFlush invocations that settle in a step
DoneCalls == running \ running'

\* A step in which a bypassing item finds a buffer of its key: the buffer
\* leaves the Map with its timer, its whole batch is handed to onFlush, and
\* the item itself is neither handed over nor buffered.
BypassFlushesPendingFirst ==
    \A r \in NewCalls :
        r.cause = "bypass" =>
            /\ BufferHas(r.key) /\ r.items = Ids(BufferGet(r.key).items)
            /\ \A i \in DOMAIN buffers' : buffers'[i].key # r.key
            /\ r.resume = nEnq' /\ nEnq' = nEnq + 1
            /\ handed'[r.resume] = 0 /\ r.resume \notin Buffered'

\* The step in which the handler of such a batch completes hands [item] to
\* onFlush, for the first time.
BypassItemFollowsBatch ==
    \A r \in DoneCalls :
        r.resume # 0 =>
            /\ handed'[r.resume] = 1
            /\ \E c \in NewCalls : c.items = <<r.resume>> /\ c.key = r.key

\* An item without key is handed over alone in the step of its enqueue, and
\* the buffers and their timers stay as they are.
KeylessIsImmediate ==
    \A r \in NewCalls :
        r.key = NullKey =>
            (r.items = <<nEnq'>> /\ nEnq' = nEnq + 1 /\ buffers' = buffers)

\* C23: an item that bypasses debouncing while a buffer of its key is
\* pending has the buffer's timer cancelled and the pending batch handed to
\* onFlush; [item] is handed to onFlush when the handler of that batch has
\* completed, not before, and alone; the item is never in a buffer. An item
\* without key is handed over at once as [item] and changes no buffer and no
\* timer.
C23_BypassPath ==
    /\ [](\A r \in running :
             /\ r.resume # 0 => (handed[r.resume] = 0 /\ r.resume \notin Buffered)
             /\ r.cause = "single" => (r.items = <<r.id>> /\ r.id \notin Buffered))
    /\ [][BypassFlushesPendingFirst /\ BypassItemFollowsBatch /\ KeylessIsImmediate]_vars

\* a bypassing item has forced out a batch of two items of its key and
\* waits for the handler of that batch
C23_Witness ==
    \E r \in running :
        /\ r.cause = "bypass" /\ Len(r.items) = 2 /\ r.resume = 3
        /\ handed[3] = 0 /\ ~BufferHas(r.key)

\* A debounced enqueue for a key with a pending buffer: the buffer gains the
\* item and its timer is armed anew, for the whole window.
EnqueueRearmsTimer ==
    \A i \in DOMAIN buffers, j \in DOMAIN buffers' :
        (buffers[i].key = buffers'[j].key
             /\ Len(buffers'[j].items) > Len(buffers[i].items))
            => buffers'[j].timer = DebounceMs

\* The timer flushes a key only debounceMs after the key's latest enqueue.
TimerWaitsFullWindow ==
    \A r \in NewCalls : r.cause = "timer" => sinceLast[r.key] = DebounceMs

\* C24: while a buffer of key k is pending every debounced enqueue for k
\* replaces the armed timer by a new one of debounceMs, so a buffer has one
\* timer, with debounceMs less the time since the latest enqueue for k left
\* on it; the timer flushes k exactly debounceMs after the latest enqueue
\* for k, never earlier, so a burst with gaps shorter than debounceMs is not
\* flushed by the timer before the input stops.
C24_WindowExtension ==
    /\ [](\A i \in DOMAIN buffers :
             /\ \A j \in DOMAIN buffers : buffers[i].key = buffers[j].key => i = j
             /\ buffers[i].timer >= 0
             /\ buffers[i].timer + sinceLast[buffers[i].key] = DebounceMs)
    /\ [][EnqueueRearmsTimer /\ TimerWaitsFullWindow]_vars

\* item 1 waits in its key's buffer; item 2, of another key, came no
\* earlier and one millisecond ago; item 3 has just joined item 1 and armed
\* the timer of their buffer anew
C24_Witness ==
    \E i \in DOMAIN buffers :
        /\ Ids(buffers[i].items) = <<1, 3>> /\ buffers[i].timer = DebounceMs
        /\ DebounceMs = 2 /\ \E k \in DebounceKeys \ {buffers[i].key} : sinceLast[k] = 1

\* A step that is a flushKey(key) call: the key's pending buffer leaves the
\* Map, timer and all, and its batch is handed to onFlush in the step.
FlushKeyDelivers ==
    \A key \in DebounceKeys :
        (FlushKey(key) /\ BufferHas(key)) =>
            /\ \A i \in DOMAIN buffers' : buffers'[i].key # key
            /\ \E r \in NewCalls : r.key = key /\ r.items = Ids(BufferGet(key).items)

\* A step that is a flushAll() call: the same for every pending buffer.
FlushAllDelivers ==
    FlushAll =>
        /\ buffers' = <<>>
        /\ \A i \in DOMAIN buffers :
               \E r \in NewCalls :
                   r.key = buffers[i].key /\ r.items = Ids(buffers[i].items)

\* A flushKey(key) or flushAll() call that finds no buffer to flush returns
\* a promise that resolves without waiting for anything, so by then nothing
\* enqueued before the call may be with the handler, or wait for its turn
\* with the handler: for flushKey nothing of the key, for flushAll nothing
\* at all. (Steps that may as well be the mere passing of time, or a
\* flushKey call rather than a flushAll call, are left aside.)
ResolvedAtOnceLeavesNothing ==
    /\ \A key \in DebounceKeys :
           (FlushKey(key) /\ ~Tick /\ ~BufferHas(key)) => \A r \in running : r.key # key
    /\ (FlushAll /\ ~Tick /\ buffers = <<>> /\ \A key \in DebounceKeys : ~FlushKey(key))
           => running = {}

\* A flushKey or flushAll promise that resolves in a step: the invocations
\* the call started have all settled.
ResolvedAfterOwnBatches ==
    \A f \in forced :
        f.awaits \subseteq {r.id : r \in DoneCalls} =>
            \A r \in running' : r.id \notin f.started

\* C25: flushKey(k) hands k's pending buffer to onFlush at once and cancels
\* its timer, flushAll does so for every pending key, and no buffer pending
\* at the call remains; when the promise of the call resolves, the handler
\* has completed for every batch with an item enqueued before the call,
\* also for a batch whose flush by timer was in flight when the call was
\* made.
C25_ForcedFlushAwaitsAll ==
    [][/\ FlushKeyDelivers
       /\ FlushAllDelivers
       /\ ResolvedAtOnceLeavesNothing
       /\ ResolvedAfterOwnBatches]_vars

\* where item i is: the number of places in buffers, plus the bypassing
\* enqueues that hold it while they await a forced flush, plus the times it
\* was handed to onFlush
Whereabouts(i) ==
    Cardinality({<<b, j>> \in (DOMAIN buffers) \X (1..MaxItems) :
                    j \in DOMAIN buffers[b].items /\ buffers[b].items[j].id = i})
        + Cardinality({r \in running : r.resume = i})
        + handed[i]

\* An item leaves the buffers only in a step that hands it to onFlush.
LeavesBufferToHandler ==
    \A i \in Buffered \ Buffered' :
        handed'[i] = 1 /\ \E r \in NewCalls : i \in Range(r.items)

\* C26: under every interleaving of enqueue, timer expiry, flushKey and
\* flushAll each enqueued item is, at any time, either in one buffer, or
\* held by the bypassing enqueue that awaits a forced flush, or was handed to
\* onFlush, once: it is never dropped and never handed over twice; and the
\* step in which a timer fires or a flush is forced hands every item of the
\* buffer to onFlush.
C26_ExactlyOnce ==
    /\ [](\A i \in 1..MaxItems : Whereabouts(i) = IF i <= nEnq THEN 1 ELSE 0)
    /\ [][LeavesBufferToHandler]_vars

\* all three items were handed to onFlush, once each, by a flushAll, a
\* timer and a bypassing enqueue
C26_Witness ==
    /\ nEnq = 3 /\ handed = [i \in 1..MaxItems |-> 1] /\ buffers = <<>>
    /\ {r.cause : r \in running} = {"flushAll", "timer", "single"}

\* C27: every buffer in the Map has at least one item and an armed timer;
\* a buffer has left the Map when its handler is invoked, so what is
\* enqueued for the key while the handler runs is in a buffer of its own,
\* not in the batch being delivered. (A call with cause "single" hands over
\* one item that was never in a buffer.)
C27_BufferInvariant ==
    /\ [](/\ \A i \in DOMAIN buffers :
                /\ Len(buffers[i].items) >= 1
                /\ buffers[i].timer \in 0..DebounceMs
          /\ \A r \in running : Range(r.items) \cap Buffered = {})
    /\ [][\A r \in NewCalls :
              r.cause # "single" => \A i \in DOMAIN buffers' : buffers'[i].key # r.key]_vars

\* the handler runs with the first item of a key while the second one waits
\* in a new buffer of the key
C27_Witness ==
    \E r \in running :
        /\ r.cause = "timer" /\ r.items = <<1>>
        /\ BufferHas(r.key) /\ Ids(BufferGet(r.key).items) = <<2>>

\* the pending buffer of a key in a Map: a sequence of one buffer, or none
PendingOf(bs, key) == SelectSeq(bs, LAMBDA b : b.key = key)

\* An enqueue, a timer expiry or a flushKey for key A leaves the buffer of
\* every other key B as it is, items and timer.
OtherKeysUntouched ==
    \A A \in DebounceKeys :
        (\/ EnqueueDebounced(A)
         \/ \E should \in BOOLEAN : EnqueueBypass(A, should)
         \/ TimerFire(A)
         \/ FlushKey(A))
            => \A B \in DebounceKeys \ {A} : PendingOf(buffers', B) = PendingOf(buffers, B)

\* C28: an enqueue, a timer expiry or a flushKey for key A leaves the buffer
\* contents and the timer of every other key B unchanged; a handler that
\* settles, well or not, changes no buffer; and a timer that is due can
\* fire whatever handlers are running, so a slow or failing handler for A
\* does not hold up the timer-driven flush of B.
C28_KeyIsolation ==
    /\ [](\A B \in DebounceKeys :
             (BufferHas(B) /\ BufferGet(B).timer = 0) => ENABLED TimerFire(B))
    /\ [][OtherKeysUntouched /\ (DoneCalls # {} => buffers' = buffers)]_vars

\* the handler still runs with the batch of one key when the timer of the
\* other key, due, has handed over its batch as well
C28_Witness ==
    \E r \in running, q \in running :
        /\ r.key # q.key /\ r.cause = "timer" /\ q.cause = "timer"
        /\ r.id < q.id /\ sinceLast[q.key] = DebounceMs /\ sinceLast[r.key] > DebounceMs

(***************************************************************************)
(* Further claims about the deduplication cache                            *)
(***************************************************************************)
\* the call that made this step was check of no key (null, undefined, "")
CheckedNoKey == ret'.key = NullKey /\ ret'.now # None

\* C29: check(null), check(undefined) and check('') return false and leave
\* the contents of the cache and size() as they were, in any state, entries
\* past their TTL included.
C29_NullKey ==
    [][CheckedNoKey =>
          /\ ret'.result = FALSE
          /\ cache' = cache
          /\ CacheSize(cache') = CacheSize(cache)]_vars

\* check of no key returned false at a time when an entry of the cache was
\* past its TTL, and the entry is still there
C29_Witness ==
    /\ ret.key = NullKey /\ ret.now # None /\ ret.result = FALSE
    /\ \E e \in Range(cache) : ret.now - e.ts > ttlMs

\* the call that made this step was a check that returned false, an insert
Inserted == ret'.key \in DedupeKeys /\ ret'.result = FALSE

\* the entries of the cache once the key is set, before the pruning
EntriesSet ==
    {e \in Range(cache) : e.key # ret'.key} \cup {[key |-> ret'.key, ts |-> ret'.now]}

\* the entries the insert removed although they were within the TTL
EvictedForCap ==
    {e \in EntriesSet : e \notin Range(cache') /\ ret'.now - e.ts <= ttlMs}

\* C30: right after a check at time now that returns false, no entry left
\* has now - timestamp > ttlMs; the entries evicted for the size cap are no
\* younger than any entry that stays, and they are as many as it takes to
\* come down to maxSize, no more.
C30_PrunePostcondition ==
    [][Inserted =>
          /\ Range(cache') \subseteq EntriesSet
          /\ \A e \in Range(cache') : ret'.now - e.ts <= ttlMs
          /\ \A e \in EvictedForCap : \A s \in Range(cache') : e.ts <= s.ts
          /\ EvictedForCap # {} => CacheSize(cache') = maxSize]_vars

\* an insert found the cache over a cap of two: the key checked first, and
\* earliest, was evicted, the two younger entries stay
C30_Witness ==
    /\ ret.key \in DedupeKeys /\ ret.result = FALSE /\ CacheGet(cache, ret.key) = ret.now
    /\ maxSize = 2 /\ CacheSize(cache) = 2
    /\ \E k \in DedupeKeys :
           /\ capEvicted[k] /\ CacheGet(cache, k) = None
           /\ \A e \in Range(cache) : lastCheck[k] < e.ts
    /\ \E e \in Range(cache) : e.ts < ret.now

\* the call that made this step was a check that returned true, a duplicate
FoundDuplicate == ret'.key \in DedupeKeys /\ ret'.result = TRUE

\* A check(k) that returns true sets the timestamp of k to the time of the
\* check and changes no other entry and not the size.
DuplicateOnlyTouches ==
    FoundDuplicate =>
        /\ CacheGet(cache', ret'.key) = ret'.now
        /\ CacheSize(cache') = CacheSize(cache)
        /\ \A i \in DOMAIN cache :
               /\ cache'[i].key = cache[i].key
               /\ cache[i].key # ret'.key => cache'[i] = cache[i]

\* the timestamp of every entry is the time of the most recent check of
\* its key: the TTL is measured from the last check
TimestampIsLastCheck == \A e \in Range(cache) : e.ts = lastCheck[e.key]

\* C31 (as stated): a check(k) that returns true sets the timestamp of k to
\* the time of the check and changes nothing else, and a key that is checked
\* again less than ttlMs after its last check is a duplicate every time.
C31_RefreshKeepsDuplicate ==
    /\ [](TimestampIsLastCheck
          /\ ((AfterMonotoneCheck /\ WithinTtlOfLastCheck) => ret.result))
    /\ [][DuplicateOnlyTouches]_vars

\* C31 (amended): the same, but the key stays a duplicate only as long as
\* the size cap has not evicted it between two of its checks.
C31_RefreshKeepsDuplicateUnlessEvicted ==
    /\ [](TimestampIsLastCheck
          /\ ((AfterMonotoneCheck /\ WithinTtlOfLastCheck /\ ~ret.evicted) => ret.result))
    /\ [][DuplicateOnlyTouches]_vars

\* a duplicate was found at a time later than the last check of the key, at
\* least ttlMs after time 0, and the entry has the time of this check, next
\* to an older entry of another key
C31_Witness ==
    /\ AfterMonotoneCheck /\ ret.result
    /\ ret.prev # None /\ ret.prev < ret.now /\ ret.now >= ttlMs
    /\ CacheGet(cache, ret.key) = ret.now
    /\ \E e \in Range(cache) : e.key # ret.key /\ e.ts < ret.now

\* the latest call was an insert, on a cache that holds an entry at all,
\* and no call so far had a timestamp below the one before it
AfterMonotoneInsert ==
    ret.key \in DedupeKeys /\ ret.result = FALSE /\ monotone /\ maxSize >= 1

\* the key an insert recorded is in the cache when the call returns
InsertedKeyIsRetained == AfterMonotoneInsert => CacheGet(cache, ret.key) = ret.now

\* this step is a check of the key just inserted, at the same time
RepeatsInsertedKey ==
    AfterMonotoneInsert /\ ret'.key = ret.key /\ ret'.now = ret.now

\* C32 (as stated): with maxSize >= 1 and non-decreasing timestamps the key
\* recorded by a check that returns false is in the cache when the call
\* returns, and a check of the same key at the same time, made next, returns
\* true.
C32_NewKeyRetained ==
    /\ []InsertedKeyIsRetained
    /\ [][RepeatsInsertedKey => ret'.result]_vars

\* C32 (amended): the same, the repeated check returning true when ttlMs > 0.
C32_NewKeyRetainedPositiveTtl ==
    /\ []InsertedKeyIsRetained
    /\ [][(RepeatsInsertedKey /\ ttlMs > 0) => ret'.result]_vars

\* an insert into a full cache: the key is in the cache, and a key checked
\* at the same time has gone for the cap
C32_Witness ==
    /\ AfterMonotoneInsert /\ ttlMs > 0
    /\ CacheGet(cache, ret.key) = ret.now /\ CacheSize(cache) = maxSize
    /\ \E k \in DedupeKeys \ {ret.key} :
           capEvicted[k] /\ CacheGet(cache, k) = None /\ lastCheck[k] = ret.now

\* A key the size cap evicts in this step was last checked ttlMs ago or more.
CapEvictsOnlyPastTtl ==
    \A k \in DedupeKeys :
        (capEvicted'[k] /\ ~capEvicted[k]) => ret'.now - lastCheck'[k] >= ttlMs

\* C33: when timestamps go strictly up and no window of length ttlMs has
\* checks of more than maxSize distinct keys, the size cap evicts no key
\* that is within its TTL, and every check of a key seen less than ttlMs
\* earlier returns true.
C33_AtMostOnceUnderLoad ==
    /\ [](ret.key \in DedupeKeys /\ WithinTtlOfLastCheck => ret.result)
    /\ [][CapEvictsOnlyPastTtl]_vars

\* a duplicate is found although the cap has evicted a key: the evicted key
\* was last checked ttlMs ago or more, and as many keys as the cache can
\* hold were checked within the window
C33_Witness ==
    /\ ret.key \in DedupeKeys /\ WithinTtlOfLastCheck /\ ret.result
    /\ ttlMs = 2 /\ maxSize = 2 /\ CacheSize(cache) = 2
    /\ \E k \in DedupeKeys : capEvicted[k] /\ CacheGet(cache, k) = None

(***************************************************************************)
(* Further claims about the backoff and the reconnect manager              *)
(***************************************************************************)
\* initialMs * (1 + jitter)
WithFullJitter(p) == RatTimes(p.initialMs, RatPlus(Whole(1), p.jitter))

\* d is a value of [lo, hi], capped at cap
InRangeCapped(d, lo, hi, cap) ==
    \/ RatLeq(lo, d) /\ RatLeq(d, hi) /\ RatLeq(d, Whole(cap))
    \/ RatEq(d, Whole(cap)) /\ RatLeq(Whole(cap), hi)

\* for attempt n >= 1 and jitter = 0 the delay is
\* min(maxMs, round(initialMs * factor^(n-1)))
ClosedFormWithoutJitter ==
    (backoffRet.called /\ backoffRet.attempt >= 1 /\ RatEq(policy.jitter, Whole(0))) =>
        backoffRet.delay =
            MathMin(policy.maxMs,
                    MathRound(RatTimes(policy.initialMs,
                                       MathPow(policy.factor, backoffRet.attempt - 1))))

\* a call of computeBackoff for attempt 1, 0 or a negative attempt
LowAttempt == backoffRet.called /\ backoffRet.attempt <= 1

\* C34 (as stated): for attempt 1, 0 and the negative attempts computeBackoff
\* gives min(maxMs, initialMs) when jitter = 0, and otherwise a value of
\* [initialMs, initialMs * (1 + jitter)] capped at maxMs; for attempt n >= 1
\* with jitter = 0 it gives min(maxMs, round(initialMs * factor^(n-1))).
C34_LowAttempts ==
    /\ (LowAttempt /\ RatEq(policy.jitter, Whole(0))) =>
           InRangeCapped(Whole(backoffRet.delay), policy.initialMs, policy.initialMs,
                         policy.maxMs)
    /\ (LowAttempt /\ ~RatEq(policy.jitter, Whole(0))) =>
           InRangeCapped(Whole(backoffRet.delay), policy.initialMs, WithFullJitter(policy),
                         policy.maxMs)
    /\ ClosedFormWithoutJitter

\* C34 (amended): the same with the rounding that computeBackoff applies:
\* min(maxMs, round(initialMs)) when jitter = 0, and otherwise the rounding
\* of a value of [initialMs, initialMs * (1 + jitter)], capped at maxMs.
C34_LowAttemptsRounded ==
    /\ (LowAttempt /\ RatEq(policy.jitter, Whole(0))) =>
           backoffRet.delay = MathMin(policy.maxMs, MathRound(policy.initialMs))
    /\ (LowAttempt /\ ~RatEq(policy.jitter, Whole(0))) =>
           InRangeCapped(Whole(backoffRet.delay), Whole(MathRound(policy.initialMs)),
                         Whole(MathRound(WithFullJitter(policy))), policy.maxMs)
    /\ ClosedFormWithoutJitter

\* a negative attempt with a factor of 2 and jitter: the delay is that of
\* the first attempt, initialMs and a share of the jitter
C34_Witness ==
    /\ backoffRet.called /\ backoffRet.attempt = -1
    /\ policy.initialMs = Whole(5) /\ policy.factor = Whole(2) /\ policy.maxMs = 30
    /\ policy.jitter = Rat(1, 4) /\ backoffRet.random = Rat(9, 10)
    /\ backoffRet.delay = 6

\* what computeBackoff(policy, n) can return, for the draws of Math.random()
BackoffValues(n) == {ComputeBackoff(policy, n, random) : random \in Randoms}

\* attempts is a whole number >= 0, the number of increment and nextDelay
\* calls since creation or the last reset; increment returns the new count
CounterCounts ==
    /\ attempts \in Nat /\ attempts = nInc
    /\ mgrRet.op \in {"increment", "nextDelay"} => attempts = mgrRet.before + 1
    /\ mgrRet.op = "increment" => mgrRet.value = attempts
    /\ mgrRet.op \in {"new", "reset"} => attempts = 0

\* attempts changes by +1, in increment and nextDelay, or to 0, in reset; the
\* policy is the one given at creation
CounterSteps ==
    /\ attempts' # attempts =>
           \/ attempts' = attempts + 1 /\ mgrRet'.op \in {"increment", "nextDelay"}
           \/ attempts' = 0 /\ mgrRet'.op = "reset"
    /\ policy' = policy

\* C35 (as stated): the counter of the manager is the number of increment
\* and nextDelay calls since creation or the last reset, it changes by +1 or
\* to 0, increment returns the new count, getPolicy() is the policy given at
\* creation, and the k-th nextDelay() since a reset returns
\* computeBackoff(policy, k).
C35_Counter ==
    /\ [](CounterCounts
          /\ (mgrRet.op = "nextDelay" => mgrRet.value \in BackoffValues(mgrRet.delays)))
    /\ [][CounterSteps]_vars

\* C35 (amended): the same, but nextDelay() returns computeBackoff(policy, n)
\* for the new count n, which is k for the k-th nextDelay() only when no
\* increment() was called since the reset.
C35_CounterNewCount ==
    /\ [](CounterCounts
          /\ (mgrRet.op = "nextDelay" => mgrRet.value \in BackoffValues(attempts)))
    /\ [][CounterSteps]_vars

\* the second nextDelay() since the reset is the third call that counts: it
\* returns a delay computeBackoff gives for attempt 3 and not for attempt 2
C35_Witness ==
    /\ mgrRet.op = "nextDelay" /\ mgrRet.delays = 2 /\ attempts = 3
    /\ mgrRet.value \in BackoffValues(3) /\ mgrRet.value \notin BackoffValues(2)

(***************************************************************************)
(* Further claims about the credential save queue                          *)
(***************************************************************************)
\* the operations the process holds before and after this step
SameQueue == proc = "up" /\ proc' = "up"

\* An operation leaves the queue only into its saveCreds() call, whatever
\* the backup step found or did; the call is made once: a running
\* operation settles, and a settled one stays as it is.
SaveCredsCalledOnce ==
    SameQueue =>
        \A i \in DOMAIN ops :
            /\ (ops[i].state = "queued" /\ ops'[i].state # "queued")
                   => ops'[i].state = "running"
            /\ ops[i].state = "running" => ops'[i].state \in {"running", "ok", "failed"}
            /\ ops[i].state \in {"ok", "failed"} => ops'[i].state = ops[i].state

\* a backup step that went wrong: the main file was missing, empty or
\* unparseable, or the copy to the backup path failed
BackupWentWrong(i) == ops[i].corruptWarned \/ ops[i].backupWarned

\* C36: whatever happens in the backup step of a queued operation (main
\* file missing, unreadable or unparseable, or the copy to the backup path
\* failing), the saveCreds callback of the operation is still invoked, once,
\* and the backup step makes no link of the queue fail and no later
\* operation be skipped.
C36_BackupNonFatal ==
    /\ [](\A i \in DOMAIN ops :
             /\ ops[i].state # "skipped"
             /\ ops[i].chain # "rejected"
             /\ ops[i].state = "failed" => ops[i].saveWarned)
    /\ [](\A f \in flushes : f.status # "rejected")
    /\ [][SaveCredsCalledOnce]_vars

\* the copy to the backup path failed for one operation, whose save
\* completed all the same, and the next operation, which found the main
\* file unparseable, is at its saveCreds() call
C36_Witness ==
    \E i \in DOMAIN ops :
        /\ ops[i].backupWarned /\ ops[i].state = "ok"
        /\ i + 1 \in DOMAIN ops
        /\ ops[i + 1].corruptWarned /\ ops[i + 1].state = "running"

\* operation i gets from the queue to its saveCreds() call in this step
StartsNow(i) == i \in DOMAIN ops /\ ops[i].state = "queued" /\ ops'[i].state = "running"

\* saveCreds() of operation i completes in this step, with valid content
CompletesValidNow(i) ==
    /\ i \in DOMAIN ops /\ ops[i].state = "running" /\ ops'[i].state = "ok"
    /\ mainFile' = ValidCreds(ops[i].ver)

\* The backup file is written in no step but the one that takes an operation
\* to its saveCreds() call, all earlier operations having settled; it then
\* is the main file as it is at that moment, if that is valid.
BackupAtExecution ==
    SameQueue =>
        /\ Len(ops') > Len(ops) => backupFile' = backupFile
        /\ backupFile' # backupFile =>
               \E i \in DOMAIN ops :
                   StartsNow(i) /\ \A j \in 1..(i - 1) : Settled(j)
        /\ \A i \in DOMAIN ops :
               (StartsNow(i) /\ IsValid(mainFile)) => backupFile' = mainFile

\* When a save completes with valid content right after a save that did,
\* the backup is the content of the earlier one, the main file as it was
\* just before the most recent save.
BackupIsPreviousMain ==
    SameQueue =>
        \A i \in 2..Len(ops) :
            (/\ CompletesValidNow(i)
             /\ ops[i - 1].state = "ok" /\ lastValid = ValidCreds(ops[i - 1].ver))
                => (backupFile' = ValidCreds(ops[i - 1].ver) /\ backupFile' # mainFile')

ConfiguredFlag(key) ==
    IF groupsConfig.present /\ key \in DOMAIN groupsConfig.groups
    THEN groupsConfig.groups[key]
    ELSE "unset"

\* the latest call of applyGroupGating got past the allowlist
PassedAllowlist == gateRet.called /\ gateRet.result.reason # "group-not-in-allowlist"

\* the latest call of applyGroupGating required a mention: it ran the
\* mention detection
MentionWasRequired == gateRet.result.detect # NotRun

\* C38: applyGroupGating takes requireMention from the entry of the group
\* if that sets the flag, else from the wildcard entry if that sets it, else
\* it is true; without a groups configuration it is true for every group.
C38_RequireMentionResolution ==
    /\ PassedAllowlist =>
           LET own == ConfiguredFlag(gateRet.groupJid)
               wild == ConfiguredFlag(Star)
           IN  /\ own # "unset" => (MentionWasRequired <=> own = "true")
               /\ (own = "unset" /\ wild # "unset") => (MentionWasRequired <=> wild = "true")
               /\ (own = "unset" /\ wild = "unset") => MentionWasRequired
               /\ ~MentionWasRequired => gateRet.result.shouldProcess
    /\ (gateRet.called /\ ~groupsConfig.present) => (PassedAllowlist /\ MentionWasRequired)

\* the group has an entry that leaves the flag unset and the wildcard entry
\* sets it to false: the message passes without a look for a mention
C38_Witness ==
    /\ PassedAllowlist /\ gateRet.groupJid = GroupJid
    /\ GroupJid \in DOMAIN Groups /\ ConfiguredFlag(GroupJid) = "unset"
    /\ ConfiguredFlag(Star) = "false"
    /\ ~MentionWasRequired /\ gateRet.result.shouldProcess

(***************************************************************************)
(* Further claims about the outbound sends                                 *)
(***************************************************************************)
\* the cleanup timer of a sent id that is due at a time
SentTimer(id, due) == [kind |-> "sent", id |-> id, due |-> due]

\* An id enters sentMessageIds only in the step of a send that got it from
\* sock.sendMessage, which also sets its removal for 60 seconds later.
TrackedOnlyBySuccessfulSend ==
    \A id \in sentMessageIds' \ sentMessageIds :
        /\ id # ""
        /\ sendRet'.fn \in {"sendWhatsAppMessage", "sendWhatsAppFile"}
        /\ sendRet'.outcome = "returned" /\ sendRet'.messageId = id
        /\ sendRet'.calls # <<>>
        /\ sendRet'.calls[Len(sendRet'.calls)].method = "sendMessage"
        /\ SentTimer(id, outNow + SentIdTtlMs) \in outTimers'

\* An id leaves sentMessageIds only when its cleanup timer fires, at the
\* time the timer was set for.
UntrackedOnlyByTimer ==
    \A id \in sentMessageIds \ sentMessageIds' :
        SentTimer(id, outNow) \in outTimers \ outTimers'

\* A send that throws, before the socket is called or in sendMessage, leaves
\* sentMessageIds and messageStore as they were.
FailedSendTracksNothing ==
    sendRet'.outcome = "threw" =>
        /\ sentMessageIds' = sentMessageIds
        /\ messageStore' = messageStore
        /\ outTimers' = outTimers

\* C39: a message id is added to sentMessageIds only by a send whose
\* sendMessage call returned a non-empty id; it stays in the set for 60
\* seconds, until its timer removes it; a send that fails in the identity
\* resolution or in sendMessage leaves sentMessageIds and messageStore
\* unchanged.
C39_SentIdTracking ==
    /\ [](\A id \in sentMessageIds :
             /\ id # ""
             /\ \E t \in outTimers :
                    /\ t.kind = "sent" /\ t.id = id
                    /\ t.due >= outNow /\ t.due <= outNow + SentIdTtlMs)
    /\ [][/\ TrackedOnlyBySuccessfulSend /\ UntrackedOnlyByTimer
          /\ FailedSendTracksNothing]_vars

\* half a minute after a send got its id, a send whose sendMessage threw
\* has left the id in the set, to be removed half a minute later
C39_Witness ==
    /\ sentMessageIds = {"m1"} /\ outNow = SentIdTtlMs \div 2
    /\ SentTimer("m1", SentIdTtlMs) \in outTimers
    /\ sendRet.outcome = "threw" /\ sendRet.calls # <<>>

(***************************************************************************)
(* Claims about the group metadata cache                                   *)
(***************************************************************************)
\* the latest get(jid) was made less than 5 minutes after the get(jid)
\* before it completed
SoonAfterPreviousGet ==
    /\ metaRet.called /\ metaRet.prev # None
    /\ metaRet.calledAt - metaRet.prev < MetaTtlMs

\* C40: a get(jid) made less than 5 minutes after a previous get(jid)
\* completed returns without a call of fetch, whether the fetch of the
\* previous get succeeded or failed.
C40_NoFetchWithinTtl == SoonAfterPreviousGet => ~metaRet.fetched

====
